---- MODULE Spec2Model ----
(***************************************************************************)
(* A model of the roguelike's turn loop (play_game), player input          *)
(* (handle_keys), combat, leveling, items, magic and monster AI.           *)
(*                                                                         *)
(* Conventions.  Roster and inventory indices are the source's 0-based     *)
(* indices; At/Put translate them to TLA+ sequences.  Option<T> is the     *)
(* empty tuple (None) or a one-element tuple (Some).  format!() output is  *)
(* the tuple of the format string and its arguments.  f32 distances are    *)
(* compared through their squares, which is exact for the small integers   *)
(* involved.                                                               *)
(***************************************************************************)
EXTENDS Integers, Sequences, FiniteSets, TLC

VARIABLES
    objects,                    \* Vec<Object>, the roster (play_game's objects)
    inventory,                  \* game.inventory
    messages,                   \* game.messages (the entries not yet drawn)
    map,                        \* game.map
    dungeon_level,              \* game.dungeon_level
    fov,                        \* tcod.fov: the computed visible set
    previous_player_position,   \* play_game's local
    key,                        \* the input events consumed by handle_keys
    player_action,              \* play_game's local: result of handle_keys
    pc,                         \* position in play_game's loop
    id,                         \* index of the monster phase's for loop
    panicked,                   \* a panic (assert, unwrap, index) aborted the program
    level_up_xp,                \* level_up's local while its menu is open, 0 otherwise
    ai_steps,                   \* observer: AI steps per roster index in the latest monster phase
    prompts,                    \* observer: level-up menus shown since the last level-up began
    call                        \* the function applied directly and its locals, None in play_game

vars == <<objects, inventory, messages, map, dungeon_level, fov,
          previous_player_position, key, player_action, pc, id, panicked,
          level_up_xp, ai_steps, prompts, call>>

----------------------------------------------------------------------------
(* Bounds of the model *)

\* deepest dungeon level that next_level is followed to
MaxDepth == 2
\* level-up menus re-shown after a non-matching key before the observer stops counting
MaxPrompts == 2
\* direct calls of take_damage in a row
MaxCalls == 3
\* iterations of make_map's loop (MAX_ROOMS in the source)
MaxAttempts == 3
\* deepest dungeon level the depth tables are looked up for
MaxLevel == 9

----------------------------------------------------------------------------
(* Program constants *)

PLAYER == 0
LEVEL_UP_BASE == 200
LEVEL_UP_FACTOR == 150
MAP_WIDTH == 80
MAP_HEIGHT == 43
ROOM_MAX_SIZE == 10
ROOM_MIN_SIZE == 6
TORCH_RADIUS == 10
MAX_INVENTORY_SIZE == 26
HEAL_AMOUNT == 40
LIGHTNING_RANGE == 5
LIGHTNING_DAMAGE == 40
CONFUSE_RANGE == 8
CONFUSE_NUM_TURNS == 10
FIREBALL_RADIUS == 3
FIREBALL_DAMAGE == 25

----------------------------------------------------------------------------
(* Generic helpers *)

None == <<>>
Some(v) == <<v>>
IsSome(o) == o # <<>>
Unwrap(o) == o[1]

At(seq, i) == seq[i + 1]
Put(seq, i, v) == [seq EXCEPT ![i + 1] = v]
Indices(seq) == 0 .. (Len(seq) - 1)

\* Vec::remove(i): removes and shifts the rest left
Remove(seq, i) == [k \in 1 .. (Len(seq) - 1) |-> IF k <= i THEN seq[k] ELSE seq[k + 1]]
\* Vec::swap_remove(i): the last element takes the place of the removed one
SwapRemove(seq, i) ==
    [k \in 1 .. (Len(seq) - 1) |-> IF k = i + 1 THEN seq[Len(seq)] ELSE seq[k]]

Min(a, b) == IF a < b THEN a ELSE b
Max(a, b) == IF a > b THEN a ELSE b
Sq(a) == a * a
Sign(a) == IF a > 0 THEN 1 ELSE IF a < 0 THEN -1 ELSE 0

\* Iterator::position: the first index satisfying a predicate
Position(P(_), seq) ==
    LET S == {i \in Indices(seq) : P(i)}
    IN  IF S = {} THEN None ELSE Some(CHOOSE i \in S : \A j \in S : i <= j)

RECURSIVE SumSeq(_)
SumSeq(s) == IF s = <<>> THEN 0 ELSE Head(s) + SumSeq(Tail(s))

----------------------------------------------------------------------------
(* Messages *)

\* Messages::add.  The log only grows; the state keeps the entries added since
\* render_all last drew the log, the part of it a step can still change.
MessagesAdd(msgs, m) == Append(msgs, m)

Add(w, m) == [w EXCEPT !.messages = MessagesAdd(@, m)]

----------------------------------------------------------------------------
(* Objects and their components (object.rs, item.rs, monster_ai.rs).       *)
(* Colour and the unused poisoned flag are presentation only and are left  *)
(* out of the record.  confused_evals is an observer, not a field of the   *)
(* source: the number of random-move evaluations ai_confused has made for  *)
(* the object since confuse was last cast on it.                           *)

\* Object::new
ObjectNew(x, y, char, name, blocks) ==
    [x |-> x, y |-> y, char |-> char, name |-> name, blocks |-> blocks,
     alive |-> FALSE, fighter |-> None, ai |-> None, item |-> None,
     equipment |-> None, always_visible |-> FALSE, level |-> 1,
     confused_evals |-> 0]

Fighter(max_hp, hp, defense, power, xp, on_death) ==
    [base_max_hp |-> max_hp, hp |-> hp, base_defense |-> defense,
     base_power |-> power, base_magic |-> 0, xp |-> xp, on_death |-> on_death]

Equipment(slot, equipped, hp_bonus, power_bonus, defense_bonus) ==
    [slot |-> slot, equipped |-> equipped, max_hp_bonus |-> hp_bonus,
     power_bonus |-> power_bonus, defense_bonus |-> defense_bonus, magic_bonus |-> 0]

\* enum Ai
Basic == [tag |-> "Basic"]
Confused(previous_ai, num_turns) ==
    [tag |-> "Confused", previous_ai |-> previous_ai, num_turns |-> num_turns]

\* the player as new_game builds it
NewPlayer ==
    [ObjectNew(0, 0, "@", "player", TRUE) EXCEPT
        !.alive = TRUE,
        !.fighter = Some(Fighter(100, 100, 1, 2, 0, "Player"))]

\* the dagger new_game puts in the inventory
Dagger ==
    [ObjectNew(0, 0, "-", "dagger", FALSE) EXCEPT
        !.item = Some("Sword"),
        !.equipment = Some(Equipment("LeftHand", TRUE, 0, 2, 0))]

\* the monsters place_objects creates (pushed with alive = true)
Orc(x, y) ==
    [ObjectNew(x, y, "o", "orc", TRUE) EXCEPT
        !.fighter = Some(Fighter(20, 20, 0, 4, 35, "Monster")),
        !.ai = Some(Basic),
        !.alive = TRUE]

Troll(x, y) ==
    [ObjectNew(x, y, "T", "troll", TRUE) EXCEPT
        !.fighter = Some(Fighter(30, 30, 2, 8, 100, "Monster")),
        !.ai = Some(Basic),
        !.alive = TRUE]

\* the items place_objects creates
ItemObject(x, y, kind) ==
    LET base ==
            CASE kind = "Sword" ->
                    [ObjectNew(x, y, "/", "sword", FALSE) EXCEPT
                        !.equipment = Some(Equipment("RightHand", FALSE, 0, 3, 0))]
              [] kind = "Shield" ->
                    [ObjectNew(x, y, "[", "shield", FALSE) EXCEPT
                        !.equipment = Some(Equipment("LeftHand", FALSE, 0, 0, 1))]
              [] kind = "Heal" -> ObjectNew(x, y, "!", "healing potion", FALSE)
              [] kind = "Lightning" -> ObjectNew(x, y, "#", "scroll of lightning bolt", FALSE)
              [] kind = "Fireball" -> ObjectNew(x, y, "#", "scroll of fireball", FALSE)
              [] kind = "Confuse" -> ObjectNew(x, y, "#", "scroll of confusion", FALSE)
    IN  [base EXCEPT !.item = Some(kind), !.always_visible = TRUE]

\* the stairs make_map pushes last
Stairs(x, y) == [ObjectNew(x, y, "<", "stairs", FALSE) EXCEPT !.always_visible = TRUE]

pos(o) == <<o.x, o.y>>
set_pos(o, x, y) == [o EXCEPT !.x = x, !.y = y]

\* squares of Object::distance_to and Object::distance
DistanceSq(o, x, y) == Sq(x - o.x) + Sq(y - o.y)

----------------------------------------------------------------------------
(* Derived stats (Object::get_all_equipped, power, defense, max_hp) *)

get_all_equipped(o, inv) ==
    IF o.name = "player"
    THEN SelectSeq(inv, LAMBDA it : IsSome(it.equipment) /\ Unwrap(it.equipment).equipped)
    ELSE <<>>

BonusSum(o, inv, field) ==
    LET eq == get_all_equipped(o, inv)
    IN  SumSeq([k \in 1 .. Len(eq) |-> Unwrap(eq[k].equipment)[field]])

power(o, inv) ==
    (IF IsSome(o.fighter) THEN Unwrap(o.fighter).base_power ELSE 0)
        + BonusSum(o, inv, "power_bonus")

defense(o, inv) ==
    (IF IsSome(o.fighter) THEN Unwrap(o.fighter).base_defense ELSE 0)
        + BonusSum(o, inv, "defense_bonus")

max_hp(o, inv) ==
    (IF IsSome(o.fighter) THEN Unwrap(o.fighter).base_max_hp ELSE 0)
        + BonusSum(o, inv, "max_hp_bonus")

\* fault variant of heal: the result is not clamped to max_hp
heal_unclamped(o, amount, inv) ==
    IF IsSome(o.fighter)
    THEN [o EXCEPT !.fighter[1].hp = @ + amount]
    ELSE o

\* Object::heal
heal(o, amount, inv) ==
    IF IsSome(o.fighter)
    THEN [o EXCEPT !.fighter[1].hp = Min(@ + amount, max_hp(o, inv))]
    ELSE o

----------------------------------------------------------------------------
(* Death callbacks and combat.  A world w is the record of the mutable     *)
(* state a function receives: the roster and the fields of Game.           *)

RemainsOf(name) ==
    CASE name = "orc" -> "remains of orc"
      [] name = "troll" -> "remains of troll"
      [] OTHER -> "remains of remains"

player_death(w, i) ==
    LET w1 == Add(w, <<"You died!">>)
    IN  [w1 EXCEPT !.objects[i + 1].char = "%"]

monster_death(w, i) ==
    LET monster == At(w.objects, i)
        w1 == Add(w, <<"{} is dead! You gain {} experience", monster.name,
                       Unwrap(monster.fighter).xp>>)
    IN  [w1 EXCEPT !.objects[i + 1] =
            [monster EXCEPT !.char = "%", !.blocks = FALSE, !.fighter = None,
                            !.ai = None, !.name = RemainsOf(monster.name)]]

\* DeathCallback::callback
callback(on_death, w, i) ==
    IF on_death = "Player" THEN player_death(w, i) ELSE monster_death(w, i)

\* Object::take_damage on roster entry i; returns the world and Option<xp>
take_damage(w, i, damage) ==
    LET o == At(w.objects, i)
        hit == IF IsSome(o.fighter) /\ damage > 0
               THEN [o EXCEPT !.fighter[1].hp = @ - damage]
               ELSE o
        w1 == [w EXCEPT !.objects[i + 1] = hit]
    IN  IF IsSome(hit.fighter) /\ Unwrap(hit.fighter).hp <= 0
        THEN LET fighter == Unwrap(hit.fighter)
                 w2 == [w1 EXCEPT !.objects[i + 1].alive = FALSE]
             IN  [w |-> callback(fighter.on_death, w2, i), xp |-> Some(fighter.xp)]
        ELSE [w |-> w1, xp |-> None]

\* fault variant of attack: the defender's defense is not subtracted
attack_ignores_defense(w, a, t) ==
    LET self == At(w.objects, a)
        target == At(w.objects, t)
        damage == power(self, w.inventory)
    IN  IF damage > 0
        THEN LET w1 == Add(w, <<"{} attacks {} for {} damage!", self.name, target.name, damage>>)
                 r == take_damage(w1, t, damage)
             IN  IF IsSome(r.xp)
                 THEN IF IsSome(At(r.w.objects, a).fighter)
                      THEN [r.w EXCEPT !.objects[a + 1].fighter[1].xp = @ + Unwrap(r.xp)]
                      ELSE [r.w EXCEPT !.panicked = TRUE]
                 ELSE r.w
        ELSE Add(w, <<"{} attacks {} but it has no effect!", self.name, target.name>>)

\* Object::attack: roster entry a attacks roster entry t
attack(w, a, t) ==
    LET self == At(w.objects, a)
        target == At(w.objects, t)
        damage == power(self, w.inventory) - defense(target, w.inventory)
    IN  IF damage > 0
        THEN LET w1 == Add(w, <<"{} attacks {} for {} damage!", self.name, target.name, damage>>)
                 r == take_damage(w1, t, damage)
             IN  IF IsSome(r.xp)
                 THEN IF IsSome(At(r.w.objects, a).fighter)
                      THEN [r.w EXCEPT !.objects[a + 1].fighter[1].xp = @ + Unwrap(r.xp)]
                      ELSE [r.w EXCEPT !.panicked = TRUE]
                 ELSE r.w
        ELSE Add(w, <<"{} attacks {} but it has no effect!", self.name, target.name>>)

----------------------------------------------------------------------------
(* Map and field of view.  The map is the grid of MAP_WIDTH x MAP_HEIGHT   *)
(* tiles; a tile is empty (blocked = block_sight = false) exactly when it  *)
(* is in map.open, every other tile is a wall.                             *)

InGrid(x, y) == x \in 0 .. (MAP_WIDTH - 1) /\ y \in 0 .. (MAP_HEIGHT - 1)

\* Rect::new and Rect::center
Rect(x, y, w, h) == [x1 |-> x, y1 |-> y, x2 |-> x + w, y2 |-> y + h]
center(r) == <<(r.x1 + r.x2) \div 2, (r.y1 + r.y2) \div 2>>

\* create_room: the tiles carved for a room
RoomTiles(r) == {<<x, y>> \in ((r.x1 + 1) .. (r.x2 - 1)) \X ((r.y1 + 1) .. (r.y2 - 1)) : TRUE}

Neighbours(t) == {<<t[1] + dx, t[2] + dy>> : dx \in -1 .. 1, dy \in -1 .. 1}

\* tcod's compute_fov(x, y, TORCH_RADIUS, FOV_LIGHT_WALLS, FOV_ALGO) as render_all
\* calls it: an empty tile is visible when it is within the radius and every tile of
\* the rectangle spanned with the origin is empty; walls next to a visible empty
\* tile are lit.
ComputeFov(m, px, py) ==
    LET clear(t) ==
            \A x \in Min(px, t[1]) .. Max(px, t[1]) :
                \A y \in Min(py, t[2]) .. Max(py, t[2]) : <<x, y>> \in m.open
        seen == {t \in m.open :
                    Sq(t[1] - px) + Sq(t[2] - py) <= Sq(TORCH_RADIUS) /\ clear(t)}
        lit == {t \in UNION {Neighbours(s) : s \in seen} :
                    InGrid(t[1], t[2]) /\ Sq(t[1] - px) + Sq(t[2] - py) <= Sq(TORCH_RADIUS)}
    IN  seen \cup lit \cup {<<px, py>>}

\* render_all on the tiles of the grid: recompute the visible set when asked, then
\* mark visible tiles explored (RenderTile follows the pass tile by tile)
render_all(w, fov_recompute) ==
    LET player == At(w.objects, PLAYER)
        f == IF fov_recompute THEN ComputeFov(w.map, player.x, player.y) ELSE w.fov
    IN  [w EXCEPT !.fov = f, !.map.explored = @ \cup f]

----------------------------------------------------------------------------
(* Movement *)

\* is_blocked, for coordinates inside the grid
is_blocked(x, y, m, objs) ==
    \/ <<x, y>> \notin m.open
    \/ \E i \in Indices(objs) : At(objs, i).blocks /\ pos(At(objs, i)) = <<x, y>>

\* fault variant of move_by: only the tile is tested, not the entities on it
move_by_onto_entities(w, i, dx, dy) ==
    LET o == At(w.objects, i)
    IN  IF ~InGrid(o.x + dx, o.y + dy)
        THEN [w EXCEPT !.panicked = TRUE]
        ELSE IF <<o.x + dx, o.y + dy>> \in w.map.open
        THEN [w EXCEPT !.objects[i + 1] = set_pos(o, o.x + dx, o.y + dy)]
        ELSE w

\* move_by; indexing the map outside the grid panics
move_by(w, i, dx, dy) ==
    LET o == At(w.objects, i)
    IN  IF ~InGrid(o.x + dx, o.y + dy)
        THEN [w EXCEPT !.panicked = TRUE]
        ELSE IF ~is_blocked(o.x + dx, o.y + dy, w.map, w.objects)
        THEN [w EXCEPT !.objects[i + 1] = set_pos(o, o.x + dx, o.y + dy)]
        ELSE w

\* (d / distance).round() for a displacement d and the squared distance dsq
RoundedStep(d, dsq) == IF d # 0 /\ 4 * d * d >= dsq THEN Sign(d) ELSE 0

\* move_towards
move_towards(w, i, target_x, target_y) ==
    LET dx == target_x - At(w.objects, i).x
        dy == target_y - At(w.objects, i).y
        dsq == Sq(dx) + Sq(dy)
    IN  move_by(w, i, RoundedStep(dx, dsq), RoundedStep(dy, dsq))

\* player_move_or_attack
player_move_or_attack(w, dx, dy) ==
    LET x == At(w.objects, PLAYER).x + dx
        y == At(w.objects, PLAYER).y + dy
        target_id == Position(LAMBDA i : IsSome(At(w.objects, i).fighter)
                                          /\ pos(At(w.objects, i)) = <<x, y>>, w.objects)
    IN  IF IsSome(target_id)
        THEN IF Unwrap(target_id) = PLAYER    \* mut_two's assert
             THEN [w EXCEPT !.panicked = TRUE]
             ELSE attack(w, PLAYER, Unwrap(target_id))
        ELSE move_by(w, PLAYER, dx, dy)

----------------------------------------------------------------------------
(* Monster AI *)

\* fault variant of ai_basic: the player's hp is not looked at before the attack
ai_basic_strikes_the_dead(w, monster_id) ==
    LET monster == At(w.objects, monster_id)
        player == At(w.objects, PLAYER)
    IN  IF pos(monster) \in w.fov
        THEN IF DistanceSq(monster, player.x, player.y) >= 4
             THEN [w |-> move_towards(w, monster_id, player.x, player.y), ai |-> Basic]
             ELSE [w |-> attack(w, monster_id, PLAYER), ai |-> Basic]
        ELSE [w |-> w, ai |-> Basic]

\* ai_basic
ai_basic(w, monster_id) ==
    LET monster == At(w.objects, monster_id)
        player == At(w.objects, PLAYER)
    IN  IF pos(monster) \in w.fov
        THEN IF DistanceSq(monster, player.x, player.y) >= 4
             THEN [w |-> move_towards(w, monster_id, player.x, player.y), ai |-> Basic]
             ELSE IF IsSome(player.fighter) /\ Unwrap(player.fighter).hp > 0
             THEN IF monster_id = PLAYER    \* mut_two's assert
                  THEN [w |-> [w EXCEPT !.panicked = TRUE], ai |-> Basic]
                  ELSE [w |-> attack(w, monster_id, PLAYER), ai |-> Basic]
             ELSE [w |-> w, ai |-> Basic]
        ELSE [w |-> w, ai |-> Basic]

\* ai_confused; dx and dy are the two random draws
ai_confused(w, monster_id, previous_ai, num_turns, dx, dy) ==
    IF num_turns >= 0
    THEN [w |-> [move_by(w, monster_id, dx, dy) EXCEPT
                    !.objects[monster_id + 1].confused_evals = @ + 1],
          ai |-> Confused(previous_ai, num_turns - 1)]
    ELSE [w |-> Add(w, <<"The {} is no longer confused!", At(w.objects, monster_id).name>>),
          ai |-> previous_ai]

\* ai_take_turn
ai_take_turn(w, monster_id, dx, dy) ==
    LET ai == At(w.objects, monster_id).ai
    IN  IF IsSome(ai)
        THEN LET w0 == [w EXCEPT !.objects[monster_id + 1].ai = None]
                 r == IF Unwrap(ai).tag = "Basic"
                      THEN ai_basic(w0, monster_id)
                      ELSE ai_confused(w0, monster_id, Unwrap(ai).previous_ai,
                                       Unwrap(ai).num_turns, dx, dy)
             IN  [r.w EXCEPT !.objects[monster_id + 1].ai = Some(r.ai)]
        ELSE w

----------------------------------------------------------------------------
(* Items and equipment (item.rs, Object::equip, Object::unequip) *)

\* get_equipped_in_slot
get_equipped_in_slot(slot, inv) ==
    Position(LAMBDA i : IsSome(At(inv, i).equipment)
                        /\ Unwrap(At(inv, i).equipment).equipped
                        /\ Unwrap(At(inv, i).equipment).slot = slot, inv)

\* impl Display for Slot
SlotDisplay(slot) ==
    CASE slot = "LeftHand" -> "left hand"
      [] slot = "RightHand" -> "right hand"
      [] slot = "Head" -> "head"
      [] slot = "Chest" -> "chest"
      [] slot = "Legs" -> "legs"
      [] slot = "Feet" -> "feet"
      [] slot = "Hands" -> "hands"
      [] slot = "Back" -> "back"
      [] slot = "LeftFinger" -> "left finger"
      [] slot = "RightFinger" -> "right finger"

\* Object::equip on an object o; returns the object and the world with its messages
equip(w, o) ==
    IF ~IsSome(o.item)
    THEN [w |-> Add(w, <<"Can't equip {:?} because it is not an item.", o>>), o |-> o]
    ELSE IF IsSome(o.equipment)
    THEN IF ~Unwrap(o.equipment).equipped
         THEN [w |-> Add(w, <<"Equipped {} on {}.", o.name,
                            SlotDisplay(Unwrap(o.equipment).slot)>>),
               o |-> [o EXCEPT !.equipment[1].equipped = TRUE]]
         ELSE [w |-> w, o |-> o]
    ELSE [w |-> Add(w, <<"Can't equip {:?} because its not equipment.", o>>), o |-> o]

\* Object::unequip
unequip(w, o) ==
    IF ~IsSome(o.item)
    THEN [w |-> Add(w, <<"Can't unequip {:?} because it is not an item.", o>>), o |-> o]
    ELSE IF IsSome(o.equipment)
    THEN IF Unwrap(o.equipment).equipped
         THEN [w |-> Add(w, <<"Unequipped {} on {}.", o.name,
                            SlotDisplay(Unwrap(o.equipment).slot)>>),
               o |-> [o EXCEPT !.equipment[1].equipped = FALSE]]
         ELSE [w |-> w, o |-> o]
    ELSE [w |-> Add(w, <<"Can't unequip {:?} because its not equipment.", o>>), o |-> o]

\* equip / unequip applied to game.inventory[i]
EquipAt(w, i) ==
    LET r == equip(w, At(w.inventory, i)) IN [r.w EXCEPT !.inventory[i + 1] = r.o]
UnequipAt(w, i) ==
    LET r == unequip(w, At(w.inventory, i)) IN [r.w EXCEPT !.inventory[i + 1] = r.o]

\* fault variant of pick_item_up: gear is equipped whatever its slot holds
pick_item_up_always_equips(w, object_id) ==
    IF Len(w.inventory) >= MAX_INVENTORY_SIZE
    THEN Add(w, <<"Your inventory is full! cannot pick up {}!", At(w.objects, object_id).name>>)
    ELSE LET item == At(w.objects, object_id)
             w1 == Add([w EXCEPT !.objects = SwapRemove(@, object_id)],
                       <<"You picked up {}!", item.name>>)
             index == Len(w.inventory)
             w2 == [w1 EXCEPT !.inventory = Append(@, item)]
         IN  IF IsSome(item.equipment) THEN EquipAt(w2, index) ELSE w2

\* fault variant of pick_item_up: the capacity test lets one item too many in
pick_item_up_over_capacity(w, object_id) ==
    IF Len(w.inventory) > MAX_INVENTORY_SIZE
    THEN Add(w, <<"Your inventory is full! cannot pick up {}!", At(w.objects, object_id).name>>)
    ELSE LET item == At(w.objects, object_id)
             w1 == Add([w EXCEPT !.objects = SwapRemove(@, object_id)],
                       <<"You picked up {}!", item.name>>)
             index == Len(w.inventory)
             w2 == [w1 EXCEPT !.inventory = Append(@, item)]
         IN  IF IsSome(item.equipment)
                /\ ~IsSome(get_equipped_in_slot(Unwrap(item.equipment).slot, w2.inventory))
             THEN EquipAt(w2, index)
             ELSE w2

\* pick_item_up
pick_item_up(w, object_id) ==
    IF Len(w.inventory) >= MAX_INVENTORY_SIZE
    THEN Add(w, <<"Your inventory is full! cannot pick up {}!", At(w.objects, object_id).name>>)
    ELSE LET item == At(w.objects, object_id)
             w1 == Add([w EXCEPT !.objects = SwapRemove(@, object_id)],
                       <<"You picked up {}!", item.name>>)
             index == Len(w.inventory)
             w2 == [w1 EXCEPT !.inventory = Append(@, item)]
         IN  IF IsSome(item.equipment)
                /\ ~IsSome(get_equipped_in_slot(Unwrap(item.equipment).slot, w2.inventory))
             THEN EquipAt(w2, index)
             ELSE w2

\* fault variant of drop_item: the item is dropped as it is, equipped or not
drop_item_keeps_equipped(w, inventory_id) ==
    LET item == At(w.inventory, inventory_id)
        w1 == [w EXCEPT !.inventory = Remove(@, inventory_id)]
        player == At(w.objects, PLAYER)
        placed == set_pos(item, player.x, player.y)
        w2 == Add(w1, <<"You dropped a {}.", placed.name>>)
    IN  [w2 EXCEPT !.objects = Append(@, placed)]

\* drop_item
drop_item(w, inventory_id) ==
    LET item == At(w.inventory, inventory_id)
        w1 == [w EXCEPT !.inventory = Remove(@, inventory_id)]
        r == IF IsSome(item.equipment) THEN unequip(w1, item) ELSE [w |-> w1, o |-> item]
        player == At(w.objects, PLAYER)
        placed == set_pos(r.o, player.x, player.y)
        w2 == Add(r.w, <<"You dropped a {}.", placed.name>>)
    IN  [w2 EXCEPT !.objects = Append(@, placed)]

\* fault variant of toggle_equipment: the toggled item counts as used up
toggle_equipment_used_up(w, inventory_id) ==
    LET eq == At(w.inventory, inventory_id).equipment
    IN  IF ~IsSome(eq)
        THEN [w |-> w, result |-> "Cancelled"]
        ELSE LET equipment == Unwrap(eq)
                 current == get_equipped_in_slot(equipment.slot, w.inventory)
                 w1 == IF IsSome(current) THEN UnequipAt(w, Unwrap(current)) ELSE w
             IN  [w |-> IF equipment.equipped
                        THEN UnequipAt(w1, inventory_id)
                        ELSE EquipAt(w1, inventory_id),
                  result |-> "UsedUp"]

\* fault variant of toggle_equipment: the slot's current occupant stays equipped
toggle_equipment_keeps_current(w, inventory_id) ==
    LET eq == At(w.inventory, inventory_id).equipment
    IN  IF ~IsSome(eq)
        THEN [w |-> w, result |-> "Cancelled"]
        ELSE [w |-> IF Unwrap(eq).equipped
                    THEN UnequipAt(w, inventory_id)
                    ELSE EquipAt(w, inventory_id),
              result |-> "UsedAndKept"]

\* toggle_equipment
toggle_equipment(w, inventory_id) ==
    LET eq == At(w.inventory, inventory_id).equipment
    IN  IF ~IsSome(eq)
        THEN [w |-> w, result |-> "Cancelled"]
        ELSE LET equipment == Unwrap(eq)
                 current == get_equipped_in_slot(equipment.slot, w.inventory)
                 w1 == IF IsSome(current) THEN UnequipAt(w, Unwrap(current)) ELSE w
             IN  [w |-> IF equipment.equipped
                        THEN UnequipAt(w1, inventory_id)
                        ELSE EquipAt(w1, inventory_id),
                  result |-> "UsedAndKept"]

----------------------------------------------------------------------------
(* Magic (magic.rs) and targeting (graphics.rs) *)

\* closest_monster
closest_monster(w, max_range) ==
    LET player == At(w.objects, PLAYER)
        dsq(i) == DistanceSq(player, At(w.objects, i).x, At(w.objects, i).y)
        cand == {i \in Indices(w.objects) :
                    /\ i # PLAYER
                    /\ IsSome(At(w.objects, i).fighter)
                    /\ IsSome(At(w.objects, i).ai)
                    /\ pos(At(w.objects, i)) \in w.fov
                    /\ dsq(i) < Sq(max_range + 1)}
    IN  IF cand = {} THEN None
        ELSE Some(CHOOSE i \in cand :
                    \A j \in cand : dsq(i) < dsq(j) \/ (dsq(i) = dsq(j) /\ i <= j))

\* target_tile accepts a left click on tile t
TileAccepted(w, t, max_range) ==
    /\ t \in w.fov
    /\ IsSome(max_range) =>
          DistanceSq(At(w.objects, PLAYER), t[1], t[2]) <= Sq(Unwrap(max_range))

\* target_monster: the first fighter other than the player on tile t
MonsterAt(w, t) ==
    Position(LAMBDA i : pos(At(w.objects, i)) = t /\ IsSome(At(w.objects, i).fighter)
                        /\ i # PLAYER, w.objects)

\* the events that end target_tile: a cancel (None) or an accepted click
TargetTileEnds(w, max_range) ==
    {None} \cup {Some(t) : t \in {u \in w.fov : TileAccepted(w, u, max_range)}}

\* the events that end target_monster: a cancel or an accepted click on a monster
TargetMonsterEnds(w, max_range) ==
    {None} \cup {Some(t) : t \in {u \in w.fov : TileAccepted(w, u, max_range)
                                                  /\ IsSome(MonsterAt(w, u))}}

\* cast_heal
cast_heal(w) ==
    LET player == At(w.objects, PLAYER)
    IN  IF IsSome(player.fighter)
        THEN IF Unwrap(player.fighter).hp = max_hp(player, w.inventory)
             THEN [w |-> Add(w, <<"You are already at full health!">>), result |-> "Cancelled"]
             ELSE LET w1 == Add(w, <<"Your wounds start to heal!">>)
                  IN  [w |-> [w1 EXCEPT !.objects[PLAYER + 1] =
                                  heal(player, HEAL_AMOUNT, w.inventory)],
                       result |-> "UsedUp"]
        ELSE [w |-> w, result |-> "Cancelled"]

\* cast_lightning
cast_lightning(w) ==
    LET monster_id == closest_monster(w, LIGHTNING_RANGE)
    IN  IF IsSome(monster_id)
        THEN LET m == Unwrap(monster_id)
                 w1 == Add(w, <<"A lightning bolt strikes {}! Damage is {} hit points.",
                                At(w.objects, m).name, LIGHTNING_DAMAGE>>)
                 r == take_damage(w1, m, LIGHTNING_DAMAGE)
             IN  [w |-> IF IsSome(r.xp)
                        THEN [r.w EXCEPT !.objects[PLAYER + 1].fighter[1].xp = @ + Unwrap(r.xp)]
                        ELSE r.w,
                  result |-> "UsedUp"]
        ELSE [w |-> Add(w, <<"No enemy close enough to strike!">>), result |-> "Cancelled"]

\* fault variant of cast_confuse: the AI to restore is always Basic
cast_confuse_over_basic(w, target) ==
    LET w1 == render_all(Add(w, <<"Left click an enemy to confuse it, or right click to cancel.">>),
                         FALSE)
    IN  IF IsSome(target)
        THEN LET monster_id == Unwrap(MonsterAt(w1, Unwrap(target)))
                 w2 == [w1 EXCEPT !.objects[monster_id + 1].ai =
                                      Some(Confused(Basic, CONFUSE_NUM_TURNS)),
                                  !.objects[monster_id + 1].confused_evals = 0]
             IN  [w |-> Add(w2, <<"The eyes of {} look vacant, as they start to stumble around",
                                  At(w2.objects, monster_id).name>>),
                  result |-> "UsedUp"]
        ELSE [w |-> Add(w1, <<"No enemy is close enough to confuse.">>), result |-> "Cancelled"]

\* cast_confuse; target is the event that ended target_monster, whose loop redraws
\* the screen without recomputing the visible set
cast_confuse(w, target) ==
    LET w1 == render_all(Add(w, <<"Left click an enemy to confuse it, or right click to cancel.">>),
                         FALSE)
    IN  IF IsSome(target)
        THEN LET monster_id == Unwrap(MonsterAt(w1, Unwrap(target)))
                 cur == At(w1.objects, monster_id).ai
                 old_ai == IF IsSome(cur) THEN Unwrap(cur) ELSE Basic
                 w2 == [w1 EXCEPT !.objects[monster_id + 1].ai =
                                      Some(Confused(old_ai, CONFUSE_NUM_TURNS)),
                                  !.objects[monster_id + 1].confused_evals = 0]
             IN  [w |-> Add(w2, <<"The eyes of {} look vacant, as they start to stumble around",
                                  At(w2.objects, monster_id).name>>),
                  result |-> "UsedUp"]
        ELSE [w |-> Add(w1, <<"No enemy is close enough to confuse.">>), result |-> "Cancelled"]

\* fault variant of FireballLoop: the xp of a killed player is added too
RECURSIVE FireballLoop_credits_self(_, _, _, _, _)
FireballLoop_credits_self(w, i, x, y, xp_to_gain) ==
    IF i >= Len(w.objects)
    THEN [w |-> w, xp |-> xp_to_gain]
    ELSE LET obj == At(w.objects, i)
         IN  IF DistanceSq(obj, x, y) <= Sq(FIREBALL_RADIUS) /\ IsSome(obj.fighter)
             THEN LET w1 == Add(w, <<"The {} gets burned for {} hit points!", obj.name,
                                     FIREBALL_DAMAGE>>)
                      r == take_damage(w1, i, FIREBALL_DAMAGE)
                  IN  FireballLoop_credits_self(r.w, i + 1, x, y,
                                                IF IsSome(r.xp)
                                                THEN xp_to_gain + Unwrap(r.xp)
                                                ELSE xp_to_gain)
             ELSE FireballLoop_credits_self(w, i + 1, x, y, xp_to_gain)

\* fault variant of FireballLoop: the blast stops short of the radius
RECURSIVE FireballLoop_inside_radius(_, _, _, _, _)
FireballLoop_inside_radius(w, i, x, y, xp_to_gain) ==
    IF i >= Len(w.objects)
    THEN [w |-> w, xp |-> xp_to_gain]
    ELSE LET obj == At(w.objects, i)
         IN  IF DistanceSq(obj, x, y) < Sq(FIREBALL_RADIUS) /\ IsSome(obj.fighter)
             THEN LET w1 == Add(w, <<"The {} gets burned for {} hit points!", obj.name,
                                     FIREBALL_DAMAGE>>)
                      r == take_damage(w1, i, FIREBALL_DAMAGE)
                  IN  FireballLoop_inside_radius(r.w, i + 1, x, y,
                                                 IF IsSome(r.xp) /\ i # PLAYER
                                                 THEN xp_to_gain + Unwrap(r.xp)
                                                 ELSE xp_to_gain)
             ELSE FireballLoop_inside_radius(w, i + 1, x, y, xp_to_gain)

\* the loop of cast_fireball over the roster from index i on; returns the world and xp_to_gain
RECURSIVE FireballLoop(_, _, _, _, _)
FireballLoop(w, i, x, y, xp_to_gain) ==
    IF i >= Len(w.objects)
    THEN [w |-> w, xp |-> xp_to_gain]
    ELSE LET obj == At(w.objects, i)
         IN  IF DistanceSq(obj, x, y) <= Sq(FIREBALL_RADIUS) /\ IsSome(obj.fighter)
             THEN LET w1 == Add(w, <<"The {} gets burned for {} hit points!", obj.name,
                                     FIREBALL_DAMAGE>>)
                      r == take_damage(w1, i, FIREBALL_DAMAGE)
                  IN  FireballLoop(r.w, i + 1, x, y,
                                   IF IsSome(r.xp) /\ i # PLAYER
                                   THEN xp_to_gain + Unwrap(r.xp)
                                   ELSE xp_to_gain)
             ELSE FireballLoop(w, i + 1, x, y, xp_to_gain)

\* cast_fireball; target is the event that ended target_tile, whose loop redraws
\* the screen without recomputing the visible set
cast_fireball(w, target) ==
    LET w1 == render_all(Add(w, <<"Left click tile to target fireball, or Right click to cancel.">>),
                         FALSE)
    IN  IF ~IsSome(target)
        THEN [w |-> w1, result |-> "Cancelled"]
        ELSE LET w2 == Add(w1, <<"The fireball explodes, burning everything within {} tiles!",
                                 FIREBALL_RADIUS>>)
                 r == FireballLoop(w2, 0, Unwrap(target)[1], Unwrap(target)[2], 0)
             IN  [w |-> [r.w EXCEPT !.objects[PLAYER + 1].fighter[1].xp = @ + r.xp],
                  result |-> "UsedUp"]

\* fault variant of Used: a cancelled use destroys the item too
Used_cancel_consumes(r, inventory_id) ==
    CASE r.result = "UsedUp" -> [r.w EXCEPT !.inventory = Remove(@, inventory_id)]
      [] r.result = "UsedAndKept" -> r.w
      [] OTHER -> Add([r.w EXCEPT !.inventory = Remove(@, inventory_id)], <<"Cancelled">>)

\* fault variant of Used: the used item is taken out with swap_remove
Used_swap_remove(r, inventory_id) ==
    CASE r.result = "UsedUp" -> [r.w EXCEPT !.inventory = SwapRemove(@, inventory_id)]
      [] r.result = "UsedAndKept" -> r.w
      [] OTHER -> Add(r.w, <<"Cancelled">>)

\* use_item's match on the UseResult r of the item's function
Used(r, inventory_id) ==
    CASE r.result = "UsedUp" -> [r.w EXCEPT !.inventory = Remove(@, inventory_id)]
      [] r.result = "UsedAndKept" -> r.w
      [] OTHER -> Add(r.w, <<"Cancelled">>)

\* use_item; target is the targeting event of a confuse or fireball scroll
use_item(w, inventory_id, target) ==
    LET it == At(w.inventory, inventory_id)
    IN  IF IsSome(it.item)
        THEN Used(CASE Unwrap(it.item) = "Heal" -> cast_heal(w)
                    [] Unwrap(it.item) = "Lightning" -> cast_lightning(w)
                    [] Unwrap(it.item) = "Confuse" -> cast_confuse(w, target)
                    [] Unwrap(it.item) = "Fireball" -> cast_fireball(w, target)
                    [] OTHER -> toggle_equipment(w, inventory_id),
                  inventory_id)
        ELSE Add(w, <<"The {} cannot be used!", it.name>>)

----------------------------------------------------------------------------
(* Menus (menu.rs).  A key press is given by the index of its letter       *)
(* (a = 0 ... z = 25, either case) or NoLetter for a non-alphabetic key.   *)

NoLetter == -1

\* fault variant of menu: the letter after the last option's is accepted too
menu_off_by_one(options_len, letter) ==
    IF letter # NoLetter /\ letter <= options_len THEN Some(letter) ELSE None

\* menu: the chosen option, if the key is the letter of one
menu(options_len, letter) ==
    IF letter # NoLetter /\ letter < options_len THEN Some(letter) ELSE None

\* inventory_menu
inventory_menu(inv, letter) ==
    LET inventory_index == menu(IF Len(inv) = 0 THEN 1 ELSE Len(inv), letter)
    IN  IF Len(inv) > 0 THEN inventory_index ELSE None

----------------------------------------------------------------------------
(* Level generation and transition (map.rs, game.rs).  The loop is checked *)
(* on levels whose only accepted room is one of a few small rectangles;    *)
(* the rest of the grid is wall.                                           *)

OneTileRoom == Rect(0, 0, 2, 2)
SmallRoom == Rect(0, 0, 3, 2)
Corridor == Rect(0, 0, 4, 2)
BigRoom == Rect(0, 0, 4, 3)

\* what place_objects pushes for the room in the modelled outcomes: nothing, or a
\* healing potion on the room's last interior tile
Placements(room) ==
    {<<>>, <<ItemObject(room.x2 - 1, room.y2 - 1, "Heal")>>}

\* the map make_map returns when room is the only accepted room
RoomMap(room) == [open |-> RoomTiles(room), explored |-> {}]

\* make_map for an outcome in which room is the only accepted room: the map, and
\* the roster with the player moved to the room's centre and the stairs pushed last
make_map(objs, room, placed) ==
    [map |-> RoomMap(room),
     objects |-> Put(objs, PLAYER, set_pos(At(objs, PLAYER), center(room)[1], center(room)[2]))
                    \o placed \o <<Stairs(center(room)[1], center(room)[2])>>]

\* fault variant of next_level: the roster of the level left behind is kept
next_level_keeps_roster(w, gen) ==
    LET w1 == Add(w, <<"You take a moment to rest and recover your strength.">>)
        player == At(w1.objects, PLAYER)
        heal_hp == max_hp(player, w1.inventory) \div 2
        w2 == [w1 EXCEPT !.objects[PLAYER + 1] = heal(player, heal_hp, w1.inventory)]
        w3 == Add(w2, <<"After a moment of rest, you venture deeper into the dungeon...">>)
        g == make_map(w3.objects, gen.room, gen.placed)
    IN  [w3 EXCEPT !.dungeon_level = @ + 1, !.objects = g.objects, !.map = g.map]

\* fault variant of next_level: the rest adds half the maximum to hp directly
next_level_rest_unclamped(w, gen) ==
    LET w1 == Add(w, <<"You take a moment to rest and recover your strength.">>)
        player == At(w1.objects, PLAYER)
        heal_hp == max_hp(player, w1.inventory) \div 2
        w2 == [w1 EXCEPT !.objects[PLAYER + 1].fighter[1].hp = @ + heal_hp]
        w3 == Add(w2, <<"After a moment of rest, you venture deeper into the dungeon...">>)
        g == make_map(SubSeq(w3.objects, 1, 1), gen.room, gen.placed)
    IN  [w3 EXCEPT !.dungeon_level = @ + 1, !.objects = g.objects, !.map = g.map]

\* next_level; gen is the generator's outcome; initialize_fov leaves the computed
\* visible set as it is
next_level(w, gen) ==
    LET w1 == Add(w, <<"You take a moment to rest and recover your strength.">>)
        player == At(w1.objects, PLAYER)
        heal_hp == max_hp(player, w1.inventory) \div 2
        w2 == [w1 EXCEPT !.objects[PLAYER + 1] = heal(player, heal_hp, w1.inventory)]
        w3 == Add(w2, <<"After a moment of rest, you venture deeper into the dungeon...">>)
        g == make_map(SubSeq(w3.objects, 1, 1), gen.room, gen.placed)
    IN  [w3 EXCEPT !.dungeon_level = @ + 1, !.objects = g.objects, !.map = g.map]

\* the generator outcomes next_level is checked with
Generated == {[room |-> OneTileRoom, placed |-> p] : p \in Placements(OneTileRoom)}
NoGen == [room |-> OneTileRoom, placed |-> <<>>]

----------------------------------------------------------------------------
(* Input (graphics.rs) *)

MoveCodes ==
    {"Up", "NumPad8", "Down", "NumPad2", "Left", "NumPad4", "Right", "NumPad6",
     "Home", "NumPad7", "PageUp", "NumPad9", "End", "NumPad1", "PageDown", "NumPad3"}

\* fault variant of Direction: the Up keys pass (0, 0)
Direction_up_stays(code) ==
    CASE code \in {"Up", "NumPad8"} -> <<0, 0>>
      [] code \in {"Down", "NumPad2"} -> <<0, 1>>
      [] code \in {"Left", "NumPad4"} -> <<-1, 0>>
      [] code \in {"Right", "NumPad6"} -> <<1, 0>>
      [] code \in {"Home", "NumPad7"} -> <<-1, -1>>
      [] code \in {"PageUp", "NumPad9"} -> <<1, -1>>
      [] code \in {"End", "NumPad1"} -> <<-1, 1>>
      [] code \in {"PageDown", "NumPad3"} -> <<1, 1>>

\* the (dx, dy) handle_keys passes to player_move_or_attack for a movement key
Direction(code) ==
    CASE code \in {"Up", "NumPad8"} -> <<0, -1>>
      [] code \in {"Down", "NumPad2"} -> <<0, 1>>
      [] code \in {"Left", "NumPad4"} -> <<-1, 0>>
      [] code \in {"Right", "NumPad6"} -> <<1, 0>>
      [] code \in {"Home", "NumPad7"} -> <<-1, -1>>
      [] code \in {"PageUp", "NumPad9"} -> <<1, -1>>
      [] code \in {"End", "NumPad1"} -> <<-1, 1>>
      [] code \in {"PageDown", "NumPad3"} -> <<1, 1>>

\* an input event: the key handle_keys matches on, the key answered to an inventory
\* menu (letter) and the event that ended a targeting loop (target)
KeyEvent(code, text, alt) ==
    [code |-> code, text |-> text, alt |-> alt, letter |-> NoLetter, target |-> None]

\* handle_keys's test for the stairs
player_on_stairs(objs) ==
    \E i \in Indices(objs) :
        pos(At(objs, i)) = pos(At(objs, PLAYER)) /\ At(objs, i).name = "stairs"

\* fault variant of item_under_player: anything on the player's tile is taken
item_under_player_any(objs) ==
    Position(LAMBDA i : pos(At(objs, i)) = pos(At(objs, PLAYER)), objs)

\* handle_keys's search for an item under the player
item_under_player(objs) ==
    Position(LAMBDA i : pos(At(objs, i)) = pos(At(objs, PLAYER)) /\ IsSome(At(objs, i).item),
             objs)

\* fault variant of player_action_of: the movement keys ignore player_alive
player_action_of_dead_moves(k, player_alive) ==
    IF k.code = "Enter" /\ k.alt THEN "DidntTakeTurn"
    ELSE IF k.code = "Escape" THEN "Exit"
    ELSE IF k.code \in MoveCodes \cup {"NumPad5"} THEN "TookTurn"
    ELSE "DidntTakeTurn"

\* fault variant of player_action_of: the 'g' and '<' arms return TookTurn
player_action_of_pickup_turn(k, player_alive) ==
    IF k.code = "Enter" /\ k.alt THEN "DidntTakeTurn"
    ELSE IF k.code = "Escape" THEN "Exit"
    ELSE IF player_alive /\ k.code \in MoveCodes \cup {"NumPad5"} THEN "TookTurn"
    ELSE IF player_alive /\ k.code = "Text" /\ k.text \in {"g", "<"} THEN "TookTurn"
    ELSE "DidntTakeTurn"

\* fault variant of player_action_of: the 'c' arm and the default arm return TookTurn
player_action_of_screen_turn(k, player_alive) ==
    IF k.code = "Enter" /\ k.alt THEN "DidntTakeTurn"
    ELSE IF k.code = "Escape" THEN "Exit"
    ELSE IF player_alive /\ k.code \in MoveCodes \cup {"NumPad5"} THEN "TookTurn"
    ELSE IF player_alive /\ k.code = "Text" /\ k.text \in {"g", "d", "i", "<"} THEN "DidntTakeTurn"
    ELSE IF player_alive THEN "TookTurn"
    ELSE "DidntTakeTurn"

\* the PlayerAction handle_keys returns for the key k
player_action_of(k, player_alive) ==
    IF k.code = "Enter" /\ k.alt THEN "DidntTakeTurn"
    ELSE IF k.code = "Escape" THEN "Exit"
    ELSE IF player_alive /\ k.code \in MoveCodes THEN "TookTurn"
    ELSE IF player_alive /\ k.code = "NumPad5" THEN "TookTurn"
    ELSE "DidntTakeTurn"

\* what the arm of handle_keys matching the key k does to the world; gen is the
\* outcome of the generator's random draws for '<'
key_effect(w, k, gen) ==
    IF (k.code = "Enter" /\ k.alt) \/ k.code = "Escape" \/ ~At(w.objects, PLAYER).alive
    THEN w
    ELSE IF k.code \in MoveCodes
    THEN player_move_or_attack(w, Direction(k.code)[1], Direction(k.code)[2])
    ELSE IF k.code = "Text" /\ k.text = "g"
    THEN IF IsSome(item_under_player(w.objects))
         THEN pick_item_up(w, Unwrap(item_under_player(w.objects)))
         ELSE w
    ELSE IF k.code = "Text" /\ k.text = "d"
    THEN IF IsSome(inventory_menu(w.inventory, k.letter))
         THEN drop_item(w, Unwrap(inventory_menu(w.inventory, k.letter)))
         ELSE w
    ELSE IF k.code = "Text" /\ k.text = "i"
    THEN IF IsSome(inventory_menu(w.inventory, k.letter))
         THEN use_item(w, Unwrap(inventory_menu(w.inventory, k.letter)), k.target)
         ELSE w
    ELSE IF k.code = "Text" /\ k.text = "<"
    THEN IF player_on_stairs(w.objects) THEN next_level(w, gen) ELSE w
    ELSE w

\* handle_keys: the world it leaves and the PlayerAction it returns
handle_keys(w, k, gen) ==
    [w |-> key_effect(w, k, gen),
     action |-> player_action_of(k, At(w.objects, PLAYER).alive)]

----------------------------------------------------------------------------
(* Leveling (object.rs).  level_up blocks in its menu loop, so it is two   *)
(* steps: the threshold check that starts a level-up, and one answer to    *)
(* the menu.                                                               *)

\* the threshold level_up compares the player's xp with
LevelUpXp(level) == LEVEL_UP_BASE + level * LEVEL_UP_FACTOR

\* fault variant of LevelUpDue: the threshold itself is not enough
LevelUpDue_strict(player) ==
    (IF IsSome(player.fighter) THEN Unwrap(player.fighter).xp ELSE 0) > LevelUpXp(player.level)

\* level_up's test
LevelUpDue(player) ==
    (IF IsSome(player.fighter) THEN Unwrap(player.fighter).xp ELSE 0) >= LevelUpXp(player.level)

\* level_up up to the first menu: the level is raised and the message logged
level_up_begin(w) ==
    LET player == At(w.objects, PLAYER)
        w1 == [w EXCEPT !.objects[PLAYER + 1].level = @ + 1]
    IN  Add(w1, <<"Your skills have increased! You are now level {}!", player.level + 1>>)

\* fault variant of level_up_apply: Constitution raises the maximum only
level_up_apply_max_only(w, xp_cost, choice) ==
    LET w1 == [w EXCEPT !.objects[PLAYER + 1].fighter[1].xp = @ - xp_cost]
    IN  CASE choice = 0 -> [w1 EXCEPT !.objects[PLAYER + 1].fighter[1].base_max_hp = @ + 20]
          [] choice = 1 -> [w1 EXCEPT !.objects[PLAYER + 1].fighter[1].base_power = @ + 1]
          [] choice = 2 -> [w1 EXCEPT !.objects[PLAYER + 1].fighter[1].base_defense = @ + 1]
          [] OTHER -> [w1 EXCEPT !.panicked = TRUE]

\* level_up after the menu returned Some(choice): the xp is paid and the stat raised
level_up_apply(w, xp_cost, choice) ==
    LET w1 == [w EXCEPT !.objects[PLAYER + 1].fighter[1].xp = @ - xp_cost]
    IN  CASE choice = 0 -> [w1 EXCEPT !.objects[PLAYER + 1].fighter[1].base_max_hp = @ + 20,
                                     !.objects[PLAYER + 1].fighter[1].hp = @ + 20]
          [] choice = 1 -> [w1 EXCEPT !.objects[PLAYER + 1].fighter[1].base_power = @ + 1]
          [] choice = 2 -> [w1 EXCEPT !.objects[PLAYER + 1].fighter[1].base_defense = @ + 1]
          [] OTHER -> [w1 EXCEPT !.panicked = TRUE]

----------------------------------------------------------------------------
(* The state play_game starts from: a new game, or a saved game that       *)
(* load_game returns.                                                      *)

\* new_game, for one outcome of the generator
NewGame(room, placed) ==
    [objects |-> make_map(<<NewPlayer>>, room, placed).objects,
     inventory |-> <<Dagger>>,
     messages |-> <<<<"Welcome stranger! Prepare to perish in the Tombs of the Ancient Kings!">>>>,
     map |-> RoomMap(room),
     dungeon_level |-> 1]

\* a game saved on dungeon level level: the room has been seen from inside
SavedGame(room, level, objs, inv) ==
    [objects |-> objs,
     inventory |-> inv,
     messages |-> <<>>,
     map |-> [RoomMap(room) EXCEPT
                !.explored = ComputeFov(RoomMap(room), At(objs, PLAYER).x, At(objs, PLAYER).y)],
     dungeon_level |-> level]

\* a player of the given level, hp, xp and base defense standing at (x, y)
PlayerAt(x, y, level, hp, xp, base_defense) ==
    [set_pos(NewPlayer, x, y) EXCEPT
        !.level = level, !.fighter[1].hp = hp, !.fighter[1].xp = xp,
        !.fighter[1].base_defense = base_defense]

\* an orc that has been wounded down to hp
WoundedOrc(x, y, hp) == [Orc(x, y) EXCEPT !.fighter[1].hp = hp]

RECURSIVE Copies(_, _)
Copies(n, o) == IF n = 0 THEN <<>> ELSE <<o>> \o Copies(n - 1, o)

\* the games play_game is started with
Games ==
    {NewGame(SmallRoom, placed) : placed \in Placements(SmallRoom)}
    \cup
    {\* a wounded level-1 player one orc short of level 2, a wounded orc two tiles away
     SavedGame(BigRoom, 1,
               <<PlayerAt(3, 1, 1, 7, 315, 1), WoundedOrc(1, 1, 4), Stairs(2, 1)>>,
               <<>>),
     \* the same player between two wounded orcs in a corridor
     SavedGame(Corridor, 1,
               <<PlayerAt(2, 1, 1, 7, 315, 1), WoundedOrc(1, 1, 2), Stairs(2, 1),
                 WoundedOrc(3, 1, 2)>>,
               <<>>),
     \* a level-4 player who took Agility three times, holding a scroll of confusion
     \* (found from the second level on)
     SavedGame(Corridor, 2,
               <<PlayerAt(3, 1, 4, 100, 0, 4), WoundedOrc(1, 1, 2), Stairs(2, 1)>>,
               <<ItemObject(1, 1, "Confuse")>>),
     \* a full inventory, and one more potion under the player, on the second level
     SavedGame(OneTileRoom, 2,
               <<PlayerAt(1, 1, 1, 100, 0, 1), Stairs(1, 1), ItemObject(1, 1, "Heal")>>,
               Copies(MAX_INVENTORY_SIZE, ItemObject(1, 1, "Heal")))}

----------------------------------------------------------------------------
(* play_game *)

World ==
    [objects |-> objects, inventory |-> inventory, messages |-> messages, map |-> map,
     dungeon_level |-> dungeon_level, fov |-> fov, panicked |-> FALSE]

Commit(w) ==
    /\ objects' = w.objects
    /\ inventory' = w.inventory
    /\ messages' = w.messages
    /\ map' = w.map
    /\ dungeon_level' = w.dungeon_level
    /\ fov' = w.fov
    /\ panicked' = w.panicked

NoKey == KeyEvent("None", "", FALSE)

\* fault variant of NextAi: the loop stops after the first entity that has an AI
NextAi_first_only(objs, i) ==
    LET S == {j \in Indices(objs) : IsSome(At(objs, j).ai)}
    IN  IF i = 0 /\ S # {} THEN CHOOSE j \in S : \A l \in S : j <= l ELSE Len(objs)

\* the first roster index from i on that has an AI, or the roster's length
NextAi(objs, i) ==
    LET S == {j \in Indices(objs) : j >= i /\ IsSome(At(objs, j).ai)}
    IN  IF S = {} THEN Len(objs) ELSE CHOOSE j \in S : \A l \in S : j <= l

\* play_game entered with the game g
StartOf(g) ==
    /\ objects = g.objects
    /\ inventory = g.inventory
    /\ messages = g.messages
    /\ map = g.map
    /\ dungeon_level = g.dungeon_level
    /\ fov = {}
    /\ previous_player_position = <<-1, -1>>
    /\ key = NoKey
    /\ player_action = "DidntTakeTurn"
    /\ pc = "frame"
    /\ id = 0
    /\ panicked = FALSE
    /\ level_up_xp = 0
    /\ ai_steps = <<>>
    /\ prompts = 0
    /\ call = None

Init == \E g \in Games : StartOf(g)

\* top of the loop up to handle_keys: the window check, the event poll, render_all,
\* level_up's threshold check and the update of previous_player_position (which
\* nothing reads between its use here and its assignment)
Frame ==
    /\ pc = "frame"
    /\ ~panicked
    /\ \E window_closed \in BOOLEAN :
          IF window_closed
          THEN /\ pc' = "closed"
               /\ UNCHANGED <<objects, inventory, messages, map, dungeon_level, fov, panicked,
                              previous_player_position, level_up_xp, prompts>>
          ELSE LET drawn == render_all(World, previous_player_position # pos(At(objects, PLAYER)))
                   w == [drawn EXCEPT !.messages = <<>>]
               IN  /\ previous_player_position' = pos(At(objects, PLAYER))
                   /\ IF LevelUpDue(At(w.objects, PLAYER))
                      THEN /\ Commit(level_up_begin(w))
                           /\ level_up_xp' = LevelUpXp(At(w.objects, PLAYER).level)
                           /\ prompts' = 1
                           /\ pc' = "level_menu"
                      ELSE /\ Commit(w)
                           /\ UNCHANGED <<level_up_xp, prompts>>
                           /\ pc' = "keys"
    /\ key' = NoKey
    /\ ai_steps' = <<>>
    /\ UNCHANGED <<player_action, id, call>>

\* fault variant of LevelUpMenu: a key that matches no option closes the menu
LevelUpMenu_NonBlocking ==
    /\ pc = "level_menu"
    /\ ~panicked
    /\ \E letter \in NoLetter .. 3 :
          IF IsSome(menu(3, letter))
          THEN /\ Commit(level_up_apply(World, level_up_xp, Unwrap(menu(3, letter))))
               /\ level_up_xp' = 0
               /\ UNCHANGED prompts
          ELSE /\ prompts' = Min(prompts + 1, MaxPrompts)
               /\ UNCHANGED <<objects, inventory, messages, map, dungeon_level, fov,
                              panicked, level_up_xp>>
    /\ pc' = "keys"
    /\ UNCHANGED <<previous_player_position, key, player_action, id, ai_steps, call>>

\* level_up: one key answered to the level-up menu
LevelUpMenu ==
    /\ pc = "level_menu"
    /\ ~panicked
    /\ \E letter \in NoLetter .. 3 :
          LET choice == menu(3, letter)
          IN  IF IsSome(choice)
              THEN /\ Commit(level_up_apply(World, level_up_xp, Unwrap(choice)))
                   /\ level_up_xp' = 0
                   /\ pc' = "keys"
                   /\ UNCHANGED prompts
              ELSE /\ prompts' = Min(prompts + 1, MaxPrompts)
                   /\ UNCHANGED <<objects, inventory, messages, map, dungeon_level, fov,
                                  panicked, level_up_xp, pc>>
    /\ UNCHANGED <<previous_player_position, key, player_action, id, ai_steps, call>>

\* the letters answered to an inventory menu: none, the first item's and the
\* last item's
Letters == {NoLetter, 0, Len(inventory) - 1}

\* the input events handle_keys is checked with in the current state
KeyEvents ==
    {KeyEvent(c, "", FALSE) :
        c \in {"Up", "Down", "Left", "Right", "Home", "PageUp", "End", "PageDown",
               "NumPad5", "Escape", "F1"}}
    \cup {KeyEvent("Enter", "", TRUE)}
    \cup {KeyEvent("Text", t, FALSE) : t \in {"g", "c", "<"}}
    \cup {[KeyEvent("Text", "d", FALSE) EXCEPT !.letter = l] : l \in Letters}
    \cup UNION {
            LET it == IF l \in Indices(inventory) THEN At(inventory, l).item ELSE None
                ends == IF it = Some("Confuse") THEN TargetMonsterEnds(World, Some(CONFUSE_RANGE))
                        ELSE IF it = Some("Fireball") THEN TargetTileEnds(World, None)
                        ELSE {None}
            IN  {[KeyEvent("Text", "i", FALSE) EXCEPT !.letter = l, !.target = e] : e \in ends}
            : l \in Letters}

\* whether k makes handle_keys call next_level
Descends(k) ==
    /\ k.code = "Text" /\ k.text = "<"
    /\ At(objects, PLAYER).alive
    /\ player_on_stairs(objects)

\* what play_game does with handle_keys's result r for the key k: the exit test and
\* the test that opens the monster phase
AfterKeys(k, r) ==
    LET first == NextAi(r.w.objects, 0)
        phase == /\ r.action # "Exit"
                 /\ At(r.w.objects, PLAYER).alive
                 /\ r.action # "DidntTakeTurn"
    IN  /\ Commit(r.w)
        /\ key' = k
        /\ player_action' = r.action
        /\ pc' = IF r.action = "Exit" THEN "exited"
                 ELSE IF phase /\ first < Len(r.w.objects) THEN "monsters"
                 ELSE "frame"
        /\ id' = IF phase THEN first ELSE 0
        /\ ai_steps' = IF phase THEN [i \in 1 .. Len(r.w.objects) |-> 0] ELSE <<>>

\* handle_keys and what the loop does with its result
HandleKeys ==
    /\ pc = "keys"
    /\ ~panicked
    /\ \E k \in KeyEvents :
          /\ Descends(k) => dungeon_level < MaxDepth
          /\ \E gen \in IF Descends(k) THEN Generated ELSE {NoGen} :
                AfterKeys(k, handle_keys(World, k, gen))
    /\ UNCHANGED <<previous_player_position, level_up_xp, prompts, call>>

\* the monster phase's for loop, from one entity that has an AI to the next
MonsterTurn ==
    /\ pc = "monsters"
    /\ ~panicked
    /\ LET draws == IF Unwrap(At(objects, id).ai).tag = "Confused"
                    THEN (-1 .. 1) \X (-1 .. 1)
                    ELSE {<<0, 0>>}
       IN  \E d \in draws :
              LET w == ai_take_turn(World, id, d[1], d[2])
                  next == NextAi(w.objects, id + 1)
              IN  /\ Commit(w)
                  /\ id' = next
                  /\ pc' = IF next >= Len(w.objects) THEN "frame" ELSE "monsters"
    /\ ai_steps' = [ai_steps EXCEPT ![id + 1] = @ + 1]
    /\ UNCHANGED <<previous_player_position, key, player_action, level_up_xp, prompts, call>>

Next == Frame \/ LevelUpMenu \/ HandleKeys \/ MonsterTurn

Spec == Init /\ [][Next]_vars

----------------------------------------------------------------------------
(* play_game started with games in which items are found and carried: the  *)
(* levels are those from which place_objects creates the items involved    *)
(* (confusion from 2, swords and lightning from 4, fireballs from 6,       *)
(* shields from 8).                                                        *)

\* the inventories of the saved games without monsters
HealFirst == <<ItemObject(0, 0, "Heal"), Dagger, ItemObject(0, 0, "Lightning")>>
ConfuseFirst == <<ItemObject(0, 0, "Confuse"), Dagger, ItemObject(0, 0, "Fireball")>>

\* a level-4 player who took Agility three times, 35 xp short of level 5, carrying
\* one scroll, beside a wounded orc
BesideOrc(hp, scroll) ==
    SavedGame(SmallRoom, 6,
              <<PlayerAt(2, 1, 4, hp, 765, 4), WoundedOrc(1, 1, 4), Stairs(2, 1)>>,
              <<ItemObject(0, 0, scroll)>>)

\* a level-1 player alone in a one-tile room
Alone(hp, inv) ==
    SavedGame(OneTileRoom, 6, <<PlayerAt(1, 1, 1, hp, 0, 1), Stairs(1, 1)>>, inv)

ItemGames ==
    {\* a new game in a one-tile room
     NewGame(OneTileRoom, <<>>),
     \* the dagger in hand, a sword and a shield underfoot
     SavedGame(OneTileRoom, 8,
               <<PlayerAt(1, 1, 1, 100, 0, 1), Stairs(1, 1), ItemObject(1, 1, "Sword"),
                 ItemObject(1, 1, "Shield")>>,
               <<Dagger>>),
     \* a fireball that kills the orc and the player, one that kills the orc only
     BesideOrc(20, "Fireball"), BesideOrc(30, "Fireball"),
     BesideOrc(30, "Lightning"), BesideOrc(30, "Confuse"),
     \* badly wounded, wounded and unhurt with a healing potion
     Alone(7, HealFirst), Alone(70, HealFirst), Alone(100, HealFirst),
     Alone(100, ConfuseFirst)}

InitItems == \E g \in ItemGames : StartOf(g)

SpecItems == InitItems /\ [][Next]_vars

----------------------------------------------------------------------------
(* Scrolls read in a room wide enough for their ranges to matter.  Only    *)
(* the 'i' key is pressed, which takes no turn, so no monster moves: the   *)
(* behaviours are those of play_game in which the player reads one scroll  *)
(* after another.                                                          *)

\* a room of 7 x 5 tiles with the stub of a tunnel leaving its lower wall
WideRoom == Rect(0, 0, 8, 6)
WideMap == [open |-> RoomTiles(WideRoom) \cup {<<2, 6>>, <<2, 7>>}, explored |-> {}]

\* where the player and the monsters stand when the game is loaded
ReaderTiles == {<<1, 1>>, <<1, 3>>}
OrcTiles == {<<2, 2>>, <<6, 1>>, <<6, 2>>, <<7, 1>>, <<2, 7>>}
TrollTiles == {<<2, 2>>, <<7, 1>>, <<2, 7>>}

\* the scrolls carried: two of a kind
ScrollKinds == {"Lightning", "Confuse", "Fireball"}

\* a saved game: the level-1 player on tile p, an orc on m1 and a troll on m2
MagicGame(p, kind, m1, m2) ==
    [objects |-> <<PlayerAt(p[1], p[2], 1, 100, 0, 1), Orc(m1[1], m1[2]), Stairs(4, 3),
                   Troll(m2[1], m2[2])>>,
     inventory |-> <<ItemObject(0, 0, kind), ItemObject(0, 0, kind)>>,
     messages |-> <<>>,
     map |-> [WideMap EXCEPT !.explored = ComputeFov(WideMap, p[1], p[2])],
     dungeon_level |-> 7]

MagicGames ==
    {MagicGame(p, kind, m[1], m[2]) :
        p \in ReaderTiles, kind \in ScrollKinds,
        m \in {mm \in OrcTiles \X TrollTiles : mm[1] # mm[2]}}

InitMagic == \E g \in MagicGames : StartOf(g)

\* handle_keys for the key 'i', and what the loop does with its result
UseKey ==
    /\ pc = "keys"
    /\ ~panicked
    /\ \E k \in {e \in KeyEvents : e.code = "Text" /\ e.text = "i"} :
          AfterKeys(k, handle_keys(World, k, NoGen))
    /\ UNCHANGED <<previous_player_position, level_up_xp, prompts, call>>

NextMagic == Frame \/ UseKey

SpecMagic == InitMagic /\ [][NextMagic]_vars

----------------------------------------------------------------------------
(* Object::take_damage applied directly.  play_game's callers only pass it *)
(* entities that have a fighter and have not died; here it is applied to   *)
(* any roster entry, as often as MaxCalls allows, so an entity that a call *)
(* has killed can be hit again.                                            *)

\* the damage values take_damage is applied with
Damages == {0, 5, FIREBALL_DAMAGE, LIGHTNING_DAMAGE}

\* the rosters take_damage is applied to: a player, an orc, a troll and a potion
DamageRosters ==
    {<<PlayerAt(1, 1, 1, hp, xp, 1), WoundedOrc(2, 1, orc_hp), Troll(3, 1),
       ItemObject(2, 1, "Heal")>> :
        hp \in {5, 30, 100}, xp \in {0, 315}, orc_hp \in {5, 20}}

Calls == IF IsSome(call) THEN Unwrap(call).n ELSE 0

InitDamage ==
    \E objs \in DamageRosters :
        /\ objects = objs
        /\ inventory = <<Dagger>>
        /\ messages = <<>>
        /\ map = RoomMap(Corridor)
        /\ dungeon_level = 1
        /\ fov = {}
        /\ previous_player_position = <<-1, -1>>
        /\ key = NoKey
        /\ player_action = "DidntTakeTurn"
        /\ pc = "take_damage"
        /\ id = 0
        /\ panicked = FALSE
        /\ level_up_xp = 0
        /\ ai_steps = <<>>
        /\ prompts = 0
        /\ call = None

\* one call objects[i].take_damage(damage, game), the log empty before it
TakeDamage ==
    /\ pc = "take_damage"
    /\ Calls < MaxCalls
    /\ \E i \in Indices(objects), damage \in Damages :
          LET r == take_damage([World EXCEPT !.messages = <<>>], i, damage)
          IN  /\ Commit(r.w)
              /\ call' = Some([n |-> Calls + 1, id |-> i, damage |-> damage, xp |-> r.xp])
    /\ UNCHANGED <<previous_player_position, key, player_action, pc, id, level_up_xp,
                   ai_steps, prompts>>

NextDamage == TakeDamage

SpecDamage == InitDamage /\ [][NextDamage]_vars

----------------------------------------------------------------------------
(* The dungeon generator (map.rs): make_map followed one loop iteration at *)
(* a time, for new_game and for next_level.  Each iteration draws a room,  *)
(* a coin and what place_objects puts into the room; call holds make_map's *)
(* caller and its locals: the accepted rooms and the iterations done.      *)

\* fault variant of intersects_with: rectangles that only share a border line pass
intersects_with_inside(r, other) ==
    /\ r.x1 < other.x2
    /\ r.x2 > other.x1
    /\ r.y1 < other.y2
    /\ r.y2 > other.y1

\* Rect::intersects_with
intersects_with(r, other) ==
    /\ r.x1 <= other.x2
    /\ r.x2 >= other.x1
    /\ r.y1 <= other.y2
    /\ r.y2 >= other.y1

\* create_h_tunnel and create_v_tunnel: the tiles carved
create_h_tunnel(x1, x2, y) == {<<x, y>> : x \in Min(x1, x2) .. Max(x1, x2)}
create_v_tunnel(y1, y2, x) == {<<x, y>> : y \in Min(y1, y2) .. Max(y1, y2)}

\* fault variant of Tunnels: the second leg is dug from the wrong end of the first
Tunnels_from_wrong_end(prev, new, coin) ==
    IF coin
    THEN create_h_tunnel(prev[1], new[1], prev[2]) \cup create_v_tunnel(prev[2], new[2], prev[1])
    ELSE create_v_tunnel(prev[2], new[2], prev[1]) \cup create_h_tunnel(prev[1], new[1], prev[2])

\* the corridor make_map digs from the previous room's centre prev to the new
\* room's centre new: horizontal leg first when the coin is true, vertical first
\* otherwise
Tunnels(prev, new, coin) ==
    IF coin
    THEN create_h_tunnel(prev[1], new[1], prev[2]) \cup create_v_tunnel(prev[2], new[2], new[1])
    ELSE create_v_tunnel(prev[2], new[2], prev[1]) \cup create_h_tunnel(prev[1], new[1], new[2])

\* fault variant of Drawable: the corner may be drawn one tile further
Drawable_to_the_edge(d) ==
    /\ d[3] \in ROOM_MIN_SIZE .. ROOM_MAX_SIZE
    /\ d[4] \in ROOM_MIN_SIZE .. ROOM_MAX_SIZE
    /\ d[1] \in 0 .. (MAP_WIDTH - d[3])
    /\ d[2] \in 0 .. (MAP_HEIGHT - d[4])

\* the (x, y, w, h) make_map's four gen_range calls can return
Drawable(d) ==
    /\ d[3] \in ROOM_MIN_SIZE .. ROOM_MAX_SIZE
    /\ d[4] \in ROOM_MIN_SIZE .. ROOM_MAX_SIZE
    /\ d[1] \in 0 .. (MAP_WIDTH - d[3] - 1)
    /\ d[2] \in 0 .. (MAP_HEIGHT - d[4] - 1)

\* the draws followed: a room in the grid's first corner, one sharing a wall line
\* with it, one a tile further, one across its corner, one in the middle of the
\* grid and the largest room in the grid's last corner; the same room one tile
\* further is outside the ranges of the draw
RoomDraws ==
    {Rect(d[1], d[2], d[3], d[4]) :
        d \in {e \in {<<0, 0, 6, 6>>, <<6, 0, 6, 6>>, <<7, 0, 10, 10>>, <<3, 3, 7, 8>>,
                      <<30, 20, 8, 6>>, <<69, 32, 10, 10>>, <<70, 33, 10, 10>>} :
                    Drawable(e)}}

\* what place_objects pushes for the room in the outcomes followed: nothing, or an
\* orc drawn for the room's centre tile and then a healing potion drawn for
\* its last; an object drawn for a blocked tile is not pushed
RoomPlacements(room, m, objs) ==
    {SelectSeq(placed, LAMBDA o : ~is_blocked(o.x, o.y, m, objs)) :
        placed \in {<<>>, <<Orc(center(room)[1], center(room)[2]),
                            ItemObject(room.x2 - 1, room.y2 - 1, "Heal")>>}}

\* fault variant of push_stairs: the stairs are put where the player arrives
push_stairs_first_room(objs, rooms) ==
    objs \o <<Stairs(center(rooms[1])[1], center(rooms[1])[2])>>

\* the end of make_map: the stairs pushed on the centre of the last accepted room
push_stairs(objs, rooms) ==
    objs \o <<Stairs(center(rooms[Len(rooms)])[1], center(rooms[Len(rooms)])[2])>>

\* make_map is entered by new_game with the new player alone in the roster, or by
\* next_level with the roster truncated to the player, who still stands on the
\* stairs of the level left
InitMap ==
    \E caller \in {"new_game", "next_level"} :
        /\ objects = IF caller = "new_game" THEN <<NewPlayer>>
                     ELSE <<PlayerAt(34, 23, 2, 57, 350, 1)>>
        /\ inventory = IF caller = "new_game" THEN <<>> ELSE <<Dagger>>
        /\ messages = <<>>
        /\ map = [open |-> {}, explored |-> {}]
        /\ dungeon_level = IF caller = "new_game" THEN 1 ELSE 2
        /\ fov = {}
        /\ previous_player_position = <<-1, -1>>
        /\ key = NoKey
        /\ player_action = "DidntTakeTurn"
        /\ pc = "make_map"
        /\ id = 0
        /\ panicked = FALSE
        /\ level_up_xp = 0
        /\ ai_steps = <<>>
        /\ prompts = 0
        /\ call = Some([caller |-> caller, rooms |-> <<>>, attempts |-> 0])

\* one iteration of make_map's loop
MakeRoom ==
    /\ pc = "make_map"
    /\ Unwrap(call).attempts < MaxAttempts
    /\ \E new_room \in RoomDraws, coin \in BOOLEAN :
          LET rooms == Unwrap(call).rooms
              failed == \E n \in 1 .. Len(rooms) : intersects_with(new_room, rooms[n])
              carved == [map EXCEPT !.open = @ \cup RoomTiles(new_room)]
          IN  IF failed
              THEN /\ call' = Some([Unwrap(call) EXCEPT !.attempts = @ + 1])
                   /\ UNCHANGED <<objects, map>>
              ELSE \E placed \in RoomPlacements(new_room, carved, objects) :
                      /\ objects' =
                            IF rooms = <<>>
                            THEN Put(objects \o placed, PLAYER,
                                     set_pos(At(objects, PLAYER), center(new_room)[1],
                                             center(new_room)[2]))
                            ELSE objects \o placed
                      /\ map' =
                            IF rooms = <<>>
                            THEN carved
                            ELSE [carved EXCEPT
                                    !.open = @ \cup Tunnels(center(rooms[Len(rooms)]),
                                                            center(new_room), coin)]
                      /\ call' = Some([Unwrap(call) EXCEPT !.rooms = Append(@, new_room),
                                                           !.attempts = @ + 1])
    /\ UNCHANGED <<inventory, messages, dungeon_level, fov, previous_player_position, key,
                   player_action, pc, id, panicked, level_up_xp, ai_steps, prompts>>

\* the end of make_map, which panics on an empty list of rooms, and what is left
\* of new_game after it: the dagger and the welcome
MakeStairs ==
    /\ pc = "make_map"
    /\ Unwrap(call).attempts = MaxAttempts
    /\ pc' = "made"
    /\ IF Unwrap(call).rooms = <<>>
       THEN panicked' = TRUE /\ UNCHANGED <<objects, inventory, messages>>
       ELSE /\ objects' = push_stairs(objects, Unwrap(call).rooms)
            /\ inventory' = IF Unwrap(call).caller = "new_game" THEN <<Dagger>> ELSE inventory
            /\ messages' =
                  IF Unwrap(call).caller = "new_game"
                  THEN MessagesAdd(messages,
                           <<"Welcome stranger! Prepare to perish in the Tombs of the Ancient Kings!">>)
                  ELSE messages
            /\ UNCHANGED panicked
    /\ UNCHANGED <<map, dungeon_level, fov, previous_player_position, key, player_action, id,
                   level_up_xp, ai_steps, prompts, call>>

NextMap == MakeRoom \/ MakeStairs

SpecMap == InitMap /\ [][NextMap]_vars

----------------------------------------------------------------------------
(* from_dungeon_level (object.rs) applied directly to the tables of        *)
(* place_objects; call holds the table and, once the function has          *)
(* returned, its result.                                                   *)

Transition(level, value) == [level |-> level, value |-> value]

\* fault variant of from_dungeon_level: the table is searched from the front
from_dungeon_level_from_front(table, level) ==
    LET found == {n \in 1 .. Len(table) : level >= table[n].level}
    IN  IF found = {} THEN 0
        ELSE table[CHOOSE n \in found : \A m \in found : n <= m].value

\* from_dungeon_level: find() on the reversed iterator returns the entry of the
\* highest index that passes the test, map_or the 0 when there is none
from_dungeon_level(table, level) ==
    LET found == {n \in 1 .. Len(table) : level >= table[n].level}
    IN  IF found = {} THEN 0
        ELSE table[CHOOSE n \in found : \A m \in found : m <= n].value

\* the tables of place_objects (monsters per room, troll weight, items per room, the
\* weights of sword, shield, lightning, fireball and confusion), the empty table and
\* a table in which two entries start at the same depth
Tables ==
    {<<Transition(1, 2), Transition(4, 3), Transition(6, 5)>>,
     <<Transition(3, 15), Transition(5, 30), Transition(7, 60)>>,
     <<Transition(1, 1), Transition(4, 2)>>,
     <<Transition(4, 5)>>,
     <<Transition(8, 15)>>,
     <<Transition(4, 25)>>,
     <<Transition(6, 25)>>,
     <<Transition(2, 10)>>,
     <<>>,
     <<Transition(2, 1), Transition(2, 7), Transition(5, 3)>>}

InitTable ==
    \E table \in Tables, level \in 1 .. MaxLevel :
        /\ objects = <<NewPlayer>>
        /\ inventory = <<>>
        /\ messages = <<>>
        /\ map = [open |-> {}, explored |-> {}]
        /\ dungeon_level = level
        /\ fov = {}
        /\ previous_player_position = <<-1, -1>>
        /\ key = NoKey
        /\ player_action = "DidntTakeTurn"
        /\ pc = "from_dungeon_level"
        /\ id = 0
        /\ panicked = FALSE
        /\ level_up_xp = 0
        /\ ai_steps = <<>>
        /\ prompts = 0
        /\ call = Some([table |-> table, value |-> None])

\* from_dungeon_level(table, dungeon_level)
Lookup ==
    /\ pc = "from_dungeon_level"
    /\ pc' = "returned"
    /\ call' = Some([Unwrap(call) EXCEPT
                        !.value = Some(from_dungeon_level(Unwrap(call).table, dungeon_level))])
    /\ UNCHANGED <<objects, inventory, messages, map, dungeon_level, fov,
                   previous_player_position, key, player_action, id, panicked, level_up_xp,
                   ai_steps, prompts>>

NextTable == Lookup

SpecTable == InitTable /\ [][NextTable]_vars

----------------------------------------------------------------------------
(* place_objects: the monsters and items of one room.  SpecPlace applies it   *)
(* to one room on every depth, one random draw per step.                      *)

\* WeightedChoice::new: each weight becomes the running total up to its entry
Cumulative(weights) == [n \in 1 .. Len(weights) |-> SumSeq(SubSeq(weights, 1, n))]

\* the binary search of ind_sample over the running totals (0-based idx)
RECURSIVE Search(_, _, _, _)
Search(cum, sample, idx, modifier) ==
    IF modifier > 1
    THEN LET i == idx + modifier \div 2
         IN  IF cum[i + 1] <= sample
             THEN Search(cum, sample, i, (modifier + 1) \div 2)
             ELSE Search(cum, sample, idx, modifier \div 2)
    ELSE idx

\* fault variant of ind_sample: the entry the search stops on is returned
ind_sample_stops_short(weights, sample) ==
    LET cum == Cumulative(weights)
    IN  IF sample < cum[1] THEN 0 ELSE Search(cum, sample, 0, Len(cum))

\* WeightedChoice::ind_sample for a sample drawn in 0 .. total - 1: the 0-based
\* index of the first entry whose running total is above the sample
ind_sample(weights, sample) ==
    LET cum == Cumulative(weights)
    IN  IF sample < cum[1] THEN 0 ELSE Search(cum, sample, 0, Len(cum)) + 1

max_monsters(level) ==
    from_dungeon_level(<<Transition(1, 2), Transition(4, 3), Transition(6, 5)>>, level)

troll_chance(level) ==
    from_dungeon_level(<<Transition(3, 15), Transition(5, 30), Transition(7, 60)>>, level)

\* the monster table: kinds and weights, in the order of the array
MonsterKinds == <<"orc", "troll">>
monster_chances(level) == <<80, troll_chance(level)>>

max_items(level) == from_dungeon_level(<<Transition(1, 1), Transition(4, 2)>>, level)

\* the item table: kinds and weights, in the order of the array
ItemKinds == <<"Sword", "Shield", "Heal", "Lightning", "Fireball", "Confuse">>
item_chances(level) ==
    <<from_dungeon_level(<<Transition(4, 5)>>, level),
      from_dungeon_level(<<Transition(8, 15)>>, level),
      35,
      from_dungeon_level(<<Transition(4, 25)>>, level),
      from_dungeon_level(<<Transition(6, 25)>>, level),
      from_dungeon_level(<<Transition(2, 10)>>, level)>>

\* the room place_objects fills and the spots drawn inside it
PlaceRoom == Rect(0, 0, 6, 6)
MonsterSpots == {<<1, 1>>, <<2, 1>>, <<3, 1>>}
ItemSpots == {<<1, 1>>, <<4, 4>>}

\* make_map calls place_objects before the player is moved into the first room:
\* a new player is on (0, 0), a descending one where it stood on the level above
InitPlace ==
    \E level \in 1 .. MaxLevel :
        /\ objects = IF level = 1 THEN <<NewPlayer>> ELSE <<PlayerAt(2, 1, 1, 100, 0, 1)>>
        /\ inventory = <<>>
        /\ messages = <<>>
        /\ map = RoomMap(PlaceRoom)
        /\ dungeon_level = level
        /\ fov = {}
        /\ previous_player_position = <<-1, -1>>
        /\ key = NoKey
        /\ player_action = "DidntTakeTurn"
        /\ pc = "place_objects"
        /\ id = 0
        /\ panicked = FALSE
        /\ level_up_xp = None
        /\ ai_steps = <<>>
        /\ prompts = 0
        /\ call = None

\* the draw of num_monsters and the building of the monster table
DrawMonsters ==
    /\ pc = "place_objects"
    /\ ~panicked
    /\ \E num_monsters \in 0 .. max_monsters(dungeon_level) :
        /\ call' = Some([num |-> num_monsters, i |-> 0])
        /\ pc' = "monsters"
        /\ panicked' = (SumSeq(monster_chances(dungeon_level)) = 0)
    /\ UNCHANGED <<objects, inventory, messages, map, dungeon_level, fov,
                   previous_player_position, key, player_action, id, level_up_xp,
                   ai_steps, prompts>>

\* one iteration of the monster loop
PlaceMonster ==
    /\ pc = "monsters"
    /\ ~panicked
    /\ Unwrap(call).i < Unwrap(call).num
    /\ \E spot \in MonsterSpots,
          sample \in 0 .. (SumSeq(monster_chances(dungeon_level)) - 1) :
        LET kind == MonsterKinds[ind_sample(monster_chances(dungeon_level), sample) + 1]
            monster == IF kind = "orc" THEN Orc(spot[1], spot[2])
                       ELSE Troll(spot[1], spot[2])
        IN  objects' = IF ~is_blocked(spot[1], spot[2], map, objects)
                       THEN Append(objects, monster)
                       ELSE objects
    /\ call' = Some([Unwrap(call) EXCEPT !.i = @ + 1])
    /\ UNCHANGED <<inventory, messages, map, dungeon_level, fov,
                   previous_player_position, key, player_action, pc, id, panicked,
                   level_up_xp, ai_steps, prompts>>

\* the draw of num_items and the building of the item table
DrawItems ==
    /\ pc = "monsters"
    /\ ~panicked
    /\ Unwrap(call).i = Unwrap(call).num
    /\ \E num_items \in 0 .. max_items(dungeon_level) :
        /\ call' = Some([num |-> num_items, i |-> 0])
        /\ pc' = "items"
        /\ panicked' = (SumSeq(item_chances(dungeon_level)) = 0)
    /\ UNCHANGED <<objects, inventory, messages, map, dungeon_level, fov,
                   previous_player_position, key, player_action, id, level_up_xp,
                   ai_steps, prompts>>

\* one iteration of the item loop
PlaceItem ==
    /\ pc = "items"
    /\ ~panicked
    /\ Unwrap(call).i < Unwrap(call).num
    /\ \E spot \in ItemSpots,
          sample \in 0 .. (SumSeq(item_chances(dungeon_level)) - 1) :
        LET kind == ItemKinds[ind_sample(item_chances(dungeon_level), sample) + 1]
        IN  objects' = IF ~is_blocked(spot[1], spot[2], map, objects)
                       THEN Append(objects, ItemObject(spot[1], spot[2], kind))
                       ELSE objects
    /\ call' = Some([Unwrap(call) EXCEPT !.i = @ + 1])
    /\ UNCHANGED <<inventory, messages, map, dungeon_level, fov,
                   previous_player_position, key, player_action, pc, id, panicked,
                   level_up_xp, ai_steps, prompts>>

NextPlace == DrawMonsters \/ PlaceMonster \/ DrawItems \/ PlaceItem

SpecPlace == InitPlace /\ [][NextPlace]_vars

----------------------------------------------------------------------------
(* One turn next to monsters.  SpecPhase enters handle_keys with an orc and  *)
(* a troll standing next to, away from and out of sight of the player, and   *)
(* follows the key and the monster phase up to the next iteration.           *)

\* play_game about to call handle_keys: render_all has computed the visible set
\* from the tile p the player stands on, with hp left
InitPhase ==
    \E p \in {<<1, 1>>, <<1, 2>>}, hp \in {3, 100},
       m1 \in {<<2, 2>>, <<3, 1>>, <<6, 1>>, <<2, 7>>},
       m2 \in {<<2, 1>>, <<4, 2>>, <<2, 7>>},
       ai \in {Basic, Confused(Basic, 0)} :
        /\ m1 # m2
        /\ objects = <<PlayerAt(p[1], p[2], 1, hp, 0, 1),
                       [Orc(m1[1], m1[2]) EXCEPT !.ai = Some(ai)],
                       Stairs(4, 3),
                       Troll(m2[1], m2[2])>>
        /\ inventory = <<Dagger>>
        /\ messages = <<>>
        /\ map = [WideMap EXCEPT !.explored = ComputeFov(WideMap, p[1], p[2])]
        /\ dungeon_level = 3
        /\ fov = ComputeFov(WideMap, p[1], p[2])
        /\ previous_player_position = p
        /\ key = NoKey
        /\ player_action = "DidntTakeTurn"
        /\ pc = "keys"
        /\ id = 0
        /\ panicked = FALSE
        /\ level_up_xp = 0
        /\ ai_steps = <<>>
        /\ prompts = 0
        /\ call = None

NextPhase == HandleKeys \/ MonsterTurn

SpecPhase == InitPhase /\ [][NextPhase]_vars

----------------------------------------------------------------------------
(* render_all's pass over the tiles, one tile per step.  graphics.rs has its *)
(* own MAP_WIDTH and MAP_HEIGHT, which bound the pass; the map it indexes is *)
(* the one make_map built with map.rs's.                                     *)

\* MAP_WIDTH and MAP_HEIGHT of graphics.rs
GRAPHICS_MAP_WIDTH == 100
GRAPHICS_MAP_HEIGHT == 53

\* play_game's first call of render_all, after the visible set was computed
InitRender ==
    \E g \in Games :
        /\ objects = g.objects
        /\ inventory = g.inventory
        /\ messages = g.messages
        /\ map = g.map
        /\ dungeon_level = g.dungeon_level
        /\ fov = ComputeFov(g.map, At(g.objects, PLAYER).x, At(g.objects, PLAYER).y)
        /\ previous_player_position = <<-1, -1>>
        /\ key = NoKey
        /\ player_action = "DidntTakeTurn"
        /\ pc = "render_all"
        /\ id = 0
        /\ panicked = FALSE
        /\ level_up_xp = 0
        /\ ai_steps = <<>>
        /\ prompts = 0
        /\ call = Some([x |-> 0, y |-> 0])

\* the body of the loops for one (x, y): game.map[x][y] is indexed, which panics
\* outside the vectors make_map allocated, and a visible tile is marked explored
RenderTile ==
    /\ pc = "render_all"
    /\ ~panicked
    /\ LET x == Unwrap(call).x
           y == Unwrap(call).y
       IN  IF ~InGrid(x, y)
           THEN /\ panicked' = TRUE
                /\ UNCHANGED <<map, pc, call>>
           ELSE /\ map' = IF <<x, y>> \in fov
                          THEN [map EXCEPT !.explored = @ \cup {<<x, y>>}]
                          ELSE map
                /\ call' = IF x + 1 < GRAPHICS_MAP_WIDTH
                           THEN Some([x |-> x + 1, y |-> y])
                           ELSE Some([x |-> 0, y |-> y + 1])
                /\ pc' = IF x + 1 >= GRAPHICS_MAP_WIDTH /\ y + 1 >= GRAPHICS_MAP_HEIGHT
                         THEN "rendered"
                         ELSE "render_all"
                /\ UNCHANGED panicked
    /\ UNCHANGED <<objects, inventory, messages, dungeon_level, fov,
                   previous_player_position, key, player_action, id, level_up_xp,
                   ai_steps, prompts>>

NextRender == RenderTile

SpecRender == InitRender /\ [][NextRender]_vars

----------------------------------------------------------------------------
(* Properties.  What the observers record: ai_steps counts, per roster     *)
(* index, the AI steps of the monster phase in progress or just finished   *)
(* (<<>> when the iteration opened none); key and player_action are the    *)
(* key handle_keys handled in this iteration and what it returned;         *)
(* level_up_xp is non-zero from level_up's threshold test succeeding until *)
(* the chosen upgrade is applied; prompts counts the level-up menus shown. *)

Player == At(objects, PLAYER)
PlayerF == Unwrap(Player.fighter)
HasAi(i) == IsSome(At(objects, i).ai)
Logged(format) == \E n \in 1 .. Len(messages) : messages[n][1] = format
TurnKey(k) == k.code \in MoveCodes \cup {"NumPad5"}

\* C1: a monster confused by a scroll (Basic before, num_turns 10) makes exactly 10
\* random-move evaluations: it never makes an 11th while confused, and once its AI
\* is Basic again it has made exactly 10.
C1_TenRandomMoves ==
    \A i \in Indices(objects) :
        LET o == At(objects, i)
        IN  /\ (IsSome(o.ai) /\ Unwrap(o.ai).tag = "Confused") => o.confused_evals <= 10
            /\ (o.ai = Some(Basic) /\ o.confused_evals > 0) => o.confused_evals = 10

\* the state C1 excludes: an 11th random move made, the monster still confused
C1_EleventhRandomMove ==
    \E i \in Indices(objects) :
        /\ IsSome(At(objects, i).ai)
        /\ Unwrap(At(objects, i).ai).tag = "Confused"
        /\ At(objects, i).confused_evals = 11

\* C2: once the player is dead, no loop iteration opens a monster phase or changes
\* the roster: handle_keys returns only DidntTakeTurn or Exit, and no AI step is made
\* outside the phase in which the player died.
C2_DeadPlayerNoMonsterPhase ==
    [][(~Player.alive /\ pc # "monsters") =>
          /\ pc' # "monsters"
          /\ ai_steps' = <<>>
          /\ pc = "keys" => /\ player_action' \in {"DidntTakeTurn", "Exit"}
                            /\ objects' = objects]_vars

\* a dead player pressed a movement key beside a living monster and the iteration ended
C2_DeadPlayerPressedMove ==
    /\ ~Player.alive
    /\ pc = "frame"
    /\ key.code = "Up"
    /\ \E i \in Indices(objects) : HasAi(i)

\* the monster phase up to roster index upto: one AI step for each entity before
\* upto that has an AI, none for the others
PhaseDone(upto) ==
    /\ Len(ai_steps) = Len(objects)
    /\ \A i \in Indices(objects) :
          At(ai_steps, i) = IF HasAi(i) /\ i < upto THEN 1 ELSE 0

PhaseState ==
    /\ pc = "monsters" => PhaseDone(id)
    /\ (pc = "frame" /\ TurnKey(key) /\ player_action = "TookTurn") => PhaseDone(Len(objects))

\* C3: while the player is alive, a movement, bump-attack or wait key returns TookTurn
\* and opens the monster phase in the same iteration, and when the phase is over
\* every roster entity that has an AI has made exactly one AI step.
C3_TurnThenOneStepEach ==
    [][/\ (pc = "keys" /\ Player.alive /\ TurnKey(key')) =>
              /\ player_action' = "TookTurn"
              /\ pc' = (IF \E i \in Indices(objects') : IsSome(At(objects', i).ai)
                        THEN "monsters" ELSE "frame")
       /\ PhaseState']_vars

\* a turn key was handled and the phase that followed stepped two monsters once each
C3_TwoMonstersStepped ==
    /\ pc = "frame"
    /\ TurnKey(key)
    /\ Cardinality({i \in Indices(objects) : HasAi(i)}) = 2
    /\ \A i \in Indices(objects) : HasAi(i) => At(ai_steps, i) = 1

PickedUp == key.code = "Text" /\ key.text = "g" /\ Logged("You picked up {}!")
Descended ==
    /\ key.code = "Text" /\ key.text = "<"
    /\ Logged("After a moment of rest, you venture deeper into the dungeon...")

\* C4 (as the code has it): a successful pickup and a successful descent return
\* DidntTakeTurn; the iteration ends without a monster phase.
C4_PickupAndDescentTakeNoTurn ==
    (PickedUp \/ Descended) =>
        /\ player_action = "DidntTakeTurn"
        /\ pc = "frame"
        /\ ai_steps = <<>>

\* C4 (as stated): a successful pickup and a successful descent count as TookTurn.
C4_PickupAndDescentTakeTurn ==
    (PickedUp \/ Descended) => player_action = "TookTurn"

\* an item was picked up on a level where a monster with an AI is waiting
C4_PickedUpBesideMonster ==
    PickedUp /\ \E i \in Indices(objects) : HasAi(i)

\* the inputs C5 lists, for the state handle_keys receives
NoOpKey(k) ==
    \/ /\ k.code = "Text" /\ k.text \in {"i", "d"}
       /\ k.letter = NoLetter \/ k.letter >= Len(inventory)
    \/ k.code = "Text" /\ k.text = "c"
    \/ /\ k.code = "Text" /\ k.text = "g"
       /\ \/ Len(inventory) >= 26
          \/ ~\E i \in Indices(objects) :
                  pos(At(objects, i)) = pos(Player) /\ IsSome(At(objects, i).item)
    \/ k.code = "F1"

\* C5: an inventory menu closed without a selection, the character screen, a pickup
\* with a full inventory or nothing underfoot, and an unrecognised key open no
\* monster phase: no AI step, and the roster (positions, hp) and inventory unchanged.
C5_NoOpInputs ==
    [][(pc = "keys" /\ NoOpKey(key')) =>
          /\ player_action' = "DidntTakeTurn"
          /\ pc' = "frame"
          /\ ai_steps' = <<>>
          /\ objects' = objects
          /\ inventory' = inventory]_vars

\* a pickup was refused because the inventory is full
C5_FullInventoryPickup ==
    /\ key.code = "Text" /\ key.text = "g"
    /\ Logged("Your inventory is full! cannot pick up {}!")
    /\ Len(inventory) = 26
    /\ pc = "frame"

\* C6: level_up raises the level exactly when xp >= 200 + level * 150 (the level
\* before the increment): then the level grows by one and, when the upgrade is
\* applied, xp drops by that threshold; below the threshold the player is unchanged.
C6_LevelUpThreshold ==
    [][/\ (pc = "frame" /\ pc' # "closed") =>
              IF PlayerF.xp >= 200 + Player.level * 150
              THEN /\ pc' = "level_menu"
                   /\ Player'.level = Player.level + 1
                   /\ level_up_xp' = 200 + Player.level * 150
              ELSE /\ pc' = "keys"
                   /\ Player' = Player
       /\ (pc = "level_menu" /\ pc' = "keys") =>
              /\ PlayerF'.xp = PlayerF.xp - (200 + (Player.level - 1) * 150)
              /\ Player'.level = Player.level]_vars

\* the player reached level 2 with xp 350 and was left with xp 0
C6_LevelTwoFrom350 ==
    Player.level = 2 /\ PlayerF.xp = 0 /\ pc = "keys"

\* C7 (as the code has it): from level_up finding the xp at the threshold until the
\* chosen upgrade is applied, the loop is in the level-up menu: no AI step is made
\* and no entity other than the player changes.
C7_MenuBlocksMonsters ==
    [][(level_up_xp # 0 \/ level_up_xp' # 0) =>
          /\ pc' \in {"level_menu", "keys"}
          /\ pc' = "keys" => level_up_xp' = 0
          /\ ai_steps' = <<>>
          /\ Tail(objects') = Tail(objects)]_vars

\* C7 (as stated): from the moment the player's xp reaches the threshold no AI step
\* is made: the monster phase never runs with the xp at or above the threshold.
C7_NoStepOnceXpReached ==
    pc = "monsters" => PlayerF.xp < 200 + Player.level * 150

\* the level-up menu is open while a monster with an AI is on the level
C7_MenuOpenBesideMonster ==
    pc = "level_menu" /\ \E i \in Indices(objects) : HasAi(i)

\* the three upgrades, with hp_delta the change of the base maximum hp
UpgradeApplied(f, g, hp_delta) ==
    \/ /\ g.base_max_hp = f.base_max_hp + hp_delta /\ g.hp = f.hp + 20
       /\ g.base_power = f.base_power /\ g.base_defense = f.base_defense
    \/ /\ g.base_max_hp = f.base_max_hp /\ g.hp = f.hp
       /\ g.base_power = f.base_power + 1 /\ g.base_defense = f.base_defense
    \/ /\ g.base_max_hp = f.base_max_hp /\ g.hp = f.hp
       /\ g.base_power = f.base_power /\ g.base_defense = f.base_defense + 1

\* C8 (as the code has it): each level-up applies exactly one of three upgrades:
\* base maximum hp +20 together with hp +20, or base power +1, or base defense +1.
C8_OneUpgrade ==
    [][(pc = "level_menu" /\ pc' = "keys") => UpgradeApplied(PlayerF, PlayerF', 20)]_vars

\* C8 (as stated): the hp upgrade changes the base maximum hp by -20 and hp by +20.
C8_OneUpgradeMinus20 ==
    [][(pc = "level_menu" /\ pc' = "keys") => UpgradeApplied(PlayerF, PlayerF', -20)]_vars

\* the Constitution upgrade was taken by the player who started with hp 7 of 100
C8_ConstitutionTaken ==
    PlayerF.base_max_hp = 120 /\ PlayerF.hp \in {21, 24, 27} /\ pc = "keys"

\* the upgrades a fighter has received since new_game's 100 / 2 / 1
Upgrades(f) == (f.base_max_hp - 100) \div 20 + (f.base_power - 2) + (f.base_defense - 1)

\* C9: an answer to the level-up menu either applies one upgrade and ends level_up,
\* or changes nothing and the menu is shown again; the level grows only on entering
\* the menu, and outside the menu every level above 1 has its upgrade.
C9_NoLevelWithoutUpgrade ==
    [][/\ pc = "level_menu" =>
              \/ /\ pc' = "keys"
                 /\ Upgrades(PlayerF') = Upgrades(PlayerF) + 1
                 /\ Player'.level = Player.level
              \/ /\ pc' = "level_menu"
                 /\ prompts' = (IF prompts < MaxPrompts THEN prompts + 1 ELSE prompts)
                 /\ objects' = objects
       /\ Player'.level # Player.level => (pc = "frame" /\ pc' = "level_menu")
       /\ pc' # "level_menu" => Player'.level - 1 = Upgrades(PlayerF')
       /\ pc' = "level_menu" => Player'.level - 2 = Upgrades(PlayerF')]_vars

\* the level-up menu was answered with a key that matches no option and is shown again
C9_PromptRepeated ==
    pc = "level_menu" /\ prompts > 1

\* the first fighter on the tile the movement key k points the player at
BumpTarget(k) ==
    Position(LAMBDA i : /\ IsSome(At(objects, i).fighter)
                        /\ pos(At(objects, i)) =
                              <<Player.x + Direction(k.code)[1], Player.y + Direction(k.code)[2]>>,
             objects)

\* roster entry a's attack on roster entry t, between this state and the next
AttackOutcome(a, t) ==
    LET damage == power(At(objects, a), inventory) - defense(At(objects, t), inventory)
        before == Unwrap(At(objects, t).fighter).hp
        after == At(objects', t)
        new == {messages'[n] : n \in (Len(messages) + 1) .. Len(messages')}
    IN  IF damage > 0
        THEN /\ IF IsSome(after.fighter)
                THEN Unwrap(after.fighter).hp = before - damage
                ELSE before - damage <= 0
             /\ <<"{} attacks {} for {} damage!", At(objects, a).name, At(objects, t).name,
                  damage>> \in new
        ELSE /\ after = At(objects, t)
             /\ <<"{} attacks {} but it has no effect!", At(objects, a).name,
                  At(objects, t).name>> \in new

\* C10: an attack's damage is the attacker's power minus the defender's defense;
\* above 0 the defender's hp drops by exactly that and the hit message is logged,
\* otherwise the defender is unchanged and the "no effect" message is logged.
C10_AttackDamage ==
    [][/\ (pc = "keys" /\ Player.alive /\ key'.code \in MoveCodes /\ IsSome(BumpTarget(key'))) =>
              AttackOutcome(PLAYER, Unwrap(BumpTarget(key')))
       /\ (/\ pc = "monsters"
           /\ At(objects, id).ai = Some(Basic)
           /\ pos(At(objects, id)) \in fov
           /\ DistanceSq(At(objects, id), Player.x, Player.y) < 4
           /\ PlayerF.hp > 0) =>
              AttackOutcome(id, PLAYER)]_vars

\* an orc of power 4 attacked the player of defense 4 to no effect
C10_NoEffectLogged ==
    <<"{} attacks {} but it has no effect!", "orc", "player">> \in
        {messages[n] : n \in 1 .. Len(messages)}

----------------------------------------------------------------------------
(* Item use, pickup and drop as steps of handle_keys: key' is the event    *)
(* the step handled, its letter the answer to the inventory menu and its   *)
(* target the event that ended the targeting loop.                         *)

\* the step handles 'i' and the menu returns the inventory index key'.letter
UseStep ==
    /\ pc = "keys"
    /\ Player.alive
    /\ key'.code = "Text" /\ key'.text = "i"
    /\ key'.letter \in Indices(inventory)

\* the step uses an item of the given kind
Uses(kind) == UseStep /\ At(inventory, key'.letter).item = Some(kind)

\* the step handles 'd' and the menu returns the inventory index key'.letter
DropStep ==
    /\ pc = "keys"
    /\ Player.alive
    /\ key'.code = "Text" /\ key'.text = "d"
    /\ key'.letter \in Indices(inventory)

\* the step handles 'g' with an item under the player: that item's roster index
PickupStep ==
    /\ pc = "keys"
    /\ Player.alive
    /\ key'.code = "Text" /\ key'.text = "g"
    /\ \E i \in Indices(objects) : pos(At(objects, i)) = pos(Player) /\ IsSome(At(objects, i).item)

Equipped(o) == IsSome(o.equipment) /\ Unwrap(o.equipment).equipped
SlotOf(o) == Unwrap(o.equipment).slot

\* the xp of the entities other than the player that a fireball bursting at t kills
KilledXp(t) ==
    SumSeq([n \in 1 .. Len(objects) |->
              IF /\ n - 1 # PLAYER
                 /\ IsSome(objects[n].fighter)
                 /\ Sq(objects[n].x - t[1]) + Sq(objects[n].y - t[2]) <= 9
                 /\ Unwrap(objects[n].fighter).hp <= 25
              THEN Unwrap(objects[n].fighter).xp
              ELSE 0])

\* C12: a fireball never credits the player with the player's own xp: after a
\* fireball has burst, the player's xp has grown by exactly the sum of the xp of the
\* other entities it killed, also when the player is among those killed.
C12_FireballXp ==
    [][(Uses("Fireball") /\ IsSome(key'.target)) =>
          Unwrap(At(objects', PLAYER).fighter).xp = PlayerF.xp + KilledXp(Unwrap(key'.target))]_vars

\* a fireball killed the player (who had 765 xp) and an orc worth 35 xp
C12_FireballKilledBoth ==
    /\ key.code = "Text" /\ key.text = "i" /\ IsSome(key.target)
    /\ ~Player.alive
    /\ PlayerF.xp = 765 + 35
    /\ \E i \in Indices(objects) : At(objects, i).name = "remains of orc"

\* the first item under the player, the one 'g' picks up
ItemUnderfoot ==
    At(objects, CHOOSE i \in Indices(objects) :
                   /\ pos(At(objects, i)) = pos(Player) /\ IsSome(At(objects, i).item)
                   /\ \A j \in 0 .. (i - 1) :
                         ~(pos(At(objects, j)) = pos(Player) /\ IsSome(At(objects, j).item)))

\* C13: the inventory never holds more than 26 items, and a pickup attempted with
\* 26 items is rejected: it logs the inventory-full message and leaves the inventory
\* and the roster unchanged.
C13_InventoryCapacity ==
    /\ [](Len(inventory) <= 26)
    /\ [][(PickupStep /\ Len(inventory) = 26) =>
             /\ inventory' = inventory
             /\ objects' = objects
             /\ messages' = Append(messages, <<"Your inventory is full! cannot pick up {}!",
                                               ItemUnderfoot.name>>)]_vars

\* with 26 items carried, 'g' over a healing potion logged the refusal and the
\* potion is still on the floor
C13_PotionLeftOnFloor ==
    /\ Len(inventory) = MAX_INVENTORY_SIZE
    /\ messages = <<<<"Your inventory is full! cannot pick up {}!", "healing potion">>>>
    /\ \E i \in Indices(objects) :
          At(objects, i).item = Some("Heal") /\ pos(At(objects, i)) = pos(Player)

\* C14: at most one inventory item per equipment slot is equipped, and no item
\* lying in the roster is equipped.
C14_OnePerSlot ==
    /\ \A i, j \in Indices(inventory) :
          (/\ Equipped(At(inventory, i)) /\ Equipped(At(inventory, j))
           /\ SlotOf(At(inventory, i)) = SlotOf(At(inventory, j))) => i = j
    /\ \A i \in Indices(objects) : ~Equipped(At(objects, i))

\* the shield has taken the dagger's hand: both are carried, only the shield is
\* equipped, and the sword is equipped in the other hand
C14_ShieldReplacedDagger ==
    /\ \E i \in Indices(inventory) :
          At(inventory, i).name = "shield" /\ Equipped(At(inventory, i))
    /\ \E i \in Indices(inventory) :
          At(inventory, i).name = "dagger" /\ ~Equipped(At(inventory, i))
    /\ \E i \in Indices(inventory) :
          At(inventory, i).name = "sword" /\ Equipped(At(inventory, i))

\* how many entries of seq equal o
Count(o, seq) == Cardinality({n \in 1 .. Len(seq) : seq[n] = o})

\* C15: a successful pickup moves the first item under the player from the roster
\* to the end of the inventory; the item ends up equipped exactly when it has an
\* equipment component and no inventory item was equipped in its slot; the other
\* inventory items, their equipped flags included, are unchanged.
C15_PickupAutoEquip ==
    [][(PickupStep /\ Len(inventory) < 26) =>
          LET it == ItemUnderfoot
              last == inventory'[Len(inventory')]
              slot_free == \A i \in Indices(inventory) :
                              ~(Equipped(At(inventory, i)) /\ SlotOf(At(inventory, i)) = SlotOf(it))
          IN  /\ Len(inventory') = Len(inventory) + 1
              /\ SubSeq(inventory', 1, Len(inventory)) = inventory
              /\ Len(objects') = Len(objects) - 1
              /\ \A n \in 1 .. Len(objects) :
                    Count(objects[n], objects') =
                        Count(objects[n], objects) - (IF objects[n] = it THEN 1 ELSE 0)
              /\ IF IsSome(it.equipment)
                 THEN /\ last = [it EXCEPT !.equipment[1].equipped = slot_free]
                      /\ ~Equipped(it)
                 ELSE last = it]_vars

\* a sword was picked up into the free right hand while the dagger stayed in the left
C15_SwordAutoEquipped ==
    /\ key.code = "Text" /\ key.text = "g"
    /\ Logged("You picked up {}!")
    /\ inventory[Len(inventory)].name = "sword"
    /\ Equipped(inventory[Len(inventory)])
    /\ \E i \in Indices(inventory) : At(inventory, i).name = "dagger" /\ Equipped(At(inventory, i))

\* o with its equipped flag cleared, for comparing items up to that flag
Unflagged(o) == IF IsSome(o.equipment) THEN [o EXCEPT !.equipment[1].equipped = FALSE] ELSE o

\* C16: using a gear item toggles it: an unequipped item becomes equipped and any
\* other item equipped in its slot becomes unequipped; an equipped item becomes
\* unequipped; no item leaves the inventory and items of other slots are unchanged.
C16_ToggleEquipment ==
    [][(UseStep /\ IsSome(At(inventory, key'.letter).equipment)) =>
          LET l == key'.letter
              it == At(inventory, l)
          IN  /\ Len(inventory') = Len(inventory)
              /\ \A i \in Indices(inventory) :
                    /\ Unflagged(At(inventory', i)) = Unflagged(At(inventory, i))
                    /\ IsSome(At(inventory, i).equipment) =>
                          IF i = l
                          THEN Equipped(At(inventory', i)) = ~Equipped(it)
                          ELSE IF SlotOf(At(inventory, i)) = SlotOf(it)
                          THEN ~Equipped(At(inventory', i))
                          ELSE At(inventory', i) = At(inventory, i)]_vars

\* the shield was used while the dagger held the left hand: the dagger came off
\* first, then the shield went on
C16_DaggerSwappedForShield ==
    /\ key.code = "Text" /\ key.text = "i"
    /\ messages = <<<<"Unequipped {} on {}.", "dagger", "left hand">>,
                    <<"Equipped {} on {}.", "shield", "left hand">>>>

\* the player's effective power with the inventory inv: base power plus the power
\* bonuses of the equipped items
EffectivePower(objs, inv) ==
    Unwrap(At(objs, PLAYER).fighter).base_power
        + SumSeq([n \in 1 .. Len(inv) |->
                    IF Equipped(inv[n]) THEN Unwrap(inv[n].equipment).power_bonus ELSE 0])

\* C17: drop removes the chosen item from the inventory, keeping the order of the
\* rest, and appends it, unequipped, to the roster at the player's coordinates;
\* dropping an equipped item with power bonus b lowers the player's effective power
\* by exactly b (an unequipped one by 0); roster index 0 is still the player.
C17_Drop ==
    [][DropStep =>
          LET l == key'.letter
              it == At(inventory, l)
          IN  /\ Len(inventory') = Len(inventory) - 1
              /\ \A i \in Indices(inventory') :
                    At(inventory', i) = At(inventory, IF i < l THEN i ELSE i + 1)
              /\ objects' = Append(objects, [Unflagged(it) EXCEPT !.x = Player.x, !.y = Player.y])
              /\ At(objects', PLAYER) = Player
              /\ EffectivePower(objects', inventory') =
                    EffectivePower(objects, inventory)
                        - (IF Equipped(it) THEN Unwrap(it.equipment).power_bonus ELSE 0)]_vars

\* the equipped dagger (power bonus 2) was dropped: it lies unequipped under the
\* player, whose power is back to the base 2
C17_DaggerDropped ==
    /\ key.code = "Text" /\ key.text = "d"
    /\ messages = <<<<"Unequipped {} on {}.", "dagger", "left hand">>,
                    <<"You dropped a {}.", "dagger">>>>
    /\ objects[Len(objects)].name = "dagger"
    /\ pos(objects[Len(objects)]) = pos(Player)
    /\ EffectivePower(objects, inventory) = 2

\* the player's effective max-hp: the base plus the bonuses of the equipped items
EffectiveMaxHp ==
    PlayerF.base_max_hp
        + SumSeq([n \in 1 .. Len(inventory) |->
                    IF Equipped(inventory[n]) THEN Unwrap(inventory[n].equipment).max_hp_bonus
                    ELSE 0])

\* the step's use succeeds and consumes: a potion drunk below full health, a
\* lightning bolt that struck, a confusion or a fireball whose targeting was not
\* cancelled
ConsumingUse ==
    \/ Uses("Heal") /\ PlayerF.hp # EffectiveMaxHp
    \/ Uses("Lightning") /\ \E n \in 1 .. Len(messages') :
                               messages'[n][1] = "A lightning bolt strikes {}! Damage is {} hit points."
    \/ Uses("Confuse") /\ IsSome(key'.target)
    \/ Uses("Fireball") /\ IsSome(key'.target)

\* C18: a consuming use that succeeds removes exactly the used item: the inventory
\* shrinks by one and the other items keep their order and equipped state; a use
\* that is cancelled or kept removes nothing.
C18_UseConsumesOne ==
    [][UseStep =>
          LET l == key'.letter
          IN  IF ConsumingUse
              THEN /\ Len(inventory') = Len(inventory) - 1
                   /\ \A i \in Indices(inventory') :
                         At(inventory', i) = At(inventory, IF i < l THEN i ELSE i + 1)
              ELSE /\ Len(inventory') = Len(inventory)
                   /\ \A i \in Indices(inventory) :
                         Unflagged(At(inventory', i)) = Unflagged(At(inventory, i))
                   /\ IsSome(At(inventory, l).equipment) \/ inventory' = inventory]_vars

\* the potion in front of the equipped dagger and the lightning scroll was drunk:
\* those two are left, in that order, the dagger still equipped
C18_PotionDrunkFromFront ==
    /\ key.code = "Text" /\ key.text = "i" /\ key.letter = 0
    /\ Logged("Your wounds start to heal!")
    /\ inventory = <<Dagger, ItemObject(0, 0, "Lightning")>>

\* the step's use is cancelled: a potion at full health, lightning without a
\* target, a confusion or a fireball cancelled during targeting
CancelledUse ==
    /\ UseStep
    /\ At(inventory, key'.letter).item \in {Some("Heal"), Some("Lightning"), Some("Confuse"),
                                            Some("Fireball")}
    /\ ~ConsumingUse

\* what the function of the used item logs before it returns Cancelled
CancelNotes ==
    CASE Uses("Heal") -> <<<<"You are already at full health!">>>>
      [] Uses("Lightning") -> <<<<"No enemy close enough to strike!">>>>
      [] Uses("Confuse") ->
            <<<<"Left click an enemy to confuse it, or right click to cancel.">>,
              <<"No enemy is close enough to confuse.">>>>
      [] Uses("Fireball") ->
            <<<<"Left click tile to target fireball, or Right click to cancel.">>>>

\* C19 as stated: a cancelled item use leaves the roster, the inventory, the map
\* and the depth unchanged and appends to the log only the message 'Cancelled'.
C19_CancelLogsOnlyCancelled ==
    [][CancelledUse =>
          /\ objects' = objects /\ inventory' = inventory
          /\ map' = map /\ dungeon_level' = dungeon_level
          /\ messages' = Append(messages, <<"Cancelled">>)]_vars

\* C19, amended: a cancelled item use leaves the roster, the inventory, the map and
\* the depth unchanged and appends to the log the messages of the item's function
\* (the reason of the refusal, or the targeting prompt) followed by 'Cancelled'.
C19_CancelLogsReasonThenCancelled ==
    [][CancelledUse =>
          /\ objects' = objects /\ inventory' = inventory
          /\ map' = map /\ dungeon_level' = dungeon_level
          /\ messages' = messages \o CancelNotes \o <<<<"Cancelled">>>>]_vars

\* the targeting of a scroll of confusion was cancelled: the scroll is kept and
\* the log shows the prompt, the refusal and 'Cancelled'
C19_ConfuseCancelled ==
    /\ key.code = "Text" /\ key.text = "i" /\ key.target = None
    /\ messages = <<<<"Left click an enemy to confuse it, or right click to cancel.">>,
                    <<"No enemy is close enough to confuse.">>, <<"Cancelled">>>>
    /\ At(inventory, key.letter).item = Some("Confuse")

\* C20: cast_heal is cancelled and keeps the potion when the player's hp equals the
\* effective max-hp; otherwise it raises hp by min(40, max-hp - hp) and consumes
\* the potion.
C20_Heal ==
    [][Uses("Heal") =>
          IF PlayerF.hp = EffectiveMaxHp
          THEN /\ objects' = objects
               /\ inventory' = inventory
               /\ messages'[Len(messages')] = <<"Cancelled">>
          ELSE /\ Unwrap(At(objects', PLAYER).fighter).hp
                     = PlayerF.hp + Min(40, EffectiveMaxHp - PlayerF.hp)
               /\ Len(inventory') = Len(inventory) - 1
               /\ Count(At(inventory, key'.letter), inventory')
                     = Count(At(inventory, key'.letter), inventory) - 1]_vars

\* a potion drunk at 70 of 100 hp restored the 30 missing points, not 40
C20_HealClampedToMax ==
    /\ key.code = "Text" /\ key.text = "i"
    /\ messages = <<<<"Your wounds start to heal!">>>>
    /\ PlayerF.hp = 100 /\ EffectiveMaxHp = 100
    /\ \A i \in Indices(inventory) : At(inventory, i).item # Some("Heal")

----------------------------------------------------------------------------
(* Scrolls *)

\* the square of the straight-line distance from the player to roster entry i
PlayerDistSq(i) == Sq(At(objects, i).x - Player.x) + Sq(At(objects, i).y - Player.y)

\* the monsters lightning may strike: hostile, in the visible set, within 5 tiles
InLightningRange(i) ==
    /\ i # PLAYER
    /\ IsSome(At(objects, i).fighter) /\ IsSome(At(objects, i).ai)
    /\ pos(At(objects, i)) \in fov
    /\ PlayerDistSq(i) <= 25

\* roster entry i took damage in this step: it died of it (monster_death leaves
\* remains without a fighter) or lost that many hp
TookDamage(i, damage) ==
    IF Unwrap(At(objects, i).fighter).hp <= damage
    THEN ~At(objects', i).alive /\ At(objects', i).char = "%"
    ELSE /\ Unwrap(At(objects', i).fighter).hp = Unwrap(At(objects, i).fighter).hp - damage
         /\ At(objects', i).alive = At(objects, i).alive

\* C21: cast_lightning strikes a monster only if it is in the visible set and within
\* distance 5 and the nearest such; the struck monster takes 40 damage whatever its
\* defense, the player is credited its xp when it dies, and the scroll is used up;
\* when no monster qualifies the cast is cancelled and the scroll kept.
C21_LightningRange ==
    [][Uses("Lightning") =>
          LET Q == {i \in Indices(objects) : InLightningRange(i)}
          IN  IF Q = {}
              THEN objects' = objects /\ inventory' = inventory
              ELSE /\ Len(inventory') = Len(inventory) - 1
                   /\ \E m \in Q :
                         /\ \A j \in Q : PlayerDistSq(m) <= PlayerDistSq(j)
                         /\ TookDamage(m, 40)
                         /\ \A j \in Indices(objects) \ {m, PLAYER} :
                               At(objects', j) = At(objects, j)
                         /\ Unwrap(At(objects', PLAYER).fighter).xp =
                               PlayerF.xp + (IF Unwrap(At(objects, m).fighter).hp <= 40
                                             THEN Unwrap(At(objects, m).fighter).xp ELSE 0)]_vars

\* lightning struck an orc standing 5 tiles east and 1 tile south of the player,
\* farther than 5 tiles away
C21_StruckBeyondRange ==
    /\ key.code = "Text" /\ key.text = "i"
    /\ messages = <<<<"A lightning bolt strikes {}! Damage is {} hit points.", "orc", 40>>,
                    <<"{} is dead! You gain {} experience", "orc", 35>>>>
    /\ \E i \in Indices(objects) :
          At(objects, i).name = "remains of orc" /\ PlayerDistSq(i) > 25

\* how many Confused wrappers an AI has around its Basic
RECURSIVE ConfusionDepth(_)
ConfusionDepth(ai) == IF ai.tag = "Basic" THEN 0 ELSE 1 + ConfusionDepth(ai.previous_ai)

\* C22 as stated: the AI of every monster is Basic or Confused wrapping Basic, never
\* a Confused wrapper around another Confused.
C22_NoNestedConfusion ==
    \A i \in Indices(objects) :
        HasAi(i) => ConfusionDepth(Unwrap(At(objects, i).ai)) <= 1

\* C22, amended: the AI of every monster is a chain of Confused wrappers around
\* Basic, and each confuse cast on a monster wraps that monster's current AI once
\* more, with 10 turns: cast on a monster that is already confused it leaves a
\* Confused wrapper around the earlier Confused.
C22_ConfuseWrapsCurrentAi ==
    [][(Uses("Confuse") /\ IsSome(key'.target)) =>
          \E m \in Indices(objects) \ {PLAYER} :
              /\ pos(At(objects, m)) = Unwrap(key'.target)
              /\ HasAi(m)
              /\ At(objects', m).ai = Some(Confused(Unwrap(At(objects, m).ai), 10))
              /\ ConfusionDepth(Unwrap(At(objects', m).ai))
                    = ConfusionDepth(Unwrap(At(objects, m).ai)) + 1
              /\ \A j \in Indices(objects) \ {m} : At(objects', j) = At(objects, j)]_vars

\* both scrolls of confusion were read on the same monster: its AI is a Confused
\* wrapper around a Confused wrapper around Basic
C22_ConfusedTwice ==
    /\ inventory = <<>>
    /\ \E i \in Indices(objects) :
          At(objects, i).ai = Some(Confused(Confused(Basic, 10), 10))

\* the roster entries a fireball on tile t burns: those with a fighter within 3 tiles
Burned(t) ==
    {i \in Indices(objects) :
        /\ IsSome(At(objects, i).fighter)
        /\ Sq(At(objects, i).x - t[1]) + Sq(At(objects, i).y - t[2]) <= 9}

\* C23: a confirmed fireball deals 25 damage to exactly the roster entities that have
\* a fighter within distance 3 of the chosen tile, the player included; it changes
\* the hp of no other entity and uses the scroll up even when it burns nothing.
C23_FireballBlast ==
    [][(Uses("Fireball") /\ IsSome(key'.target)) =>
          LET hit == Burned(Unwrap(key'.target))
          IN  /\ Len(objects') = Len(objects)
              /\ \A i \in hit : TookDamage(i, 25)
              /\ \A i \in Indices(objects) \ (hit \cup {PLAYER}) :
                    At(objects', i) = At(objects, i)
              /\ PLAYER \notin hit =>
                    /\ Unwrap(At(objects', PLAYER).fighter).hp = PlayerF.hp
                    /\ At(objects', PLAYER).alive = Player.alive
              /\ Len(inventory') = Len(inventory) - 1]_vars

\* both fireballs were cast: one burned the player alone, the last one burned
\* nothing, and both scrolls are gone
C23_BurnedPlayerThenNothing ==
    /\ key.code = "Text" /\ key.text = "i" /\ IsSome(key.target)
    /\ inventory = <<>>
    /\ PlayerF.hp = 75
    /\ messages # <<>>
    /\ messages[Len(messages)][1] = "The fireball explodes, burning everything within {} tiles!"
    /\ \A i \in Indices(objects) \ {PLAYER} :
          IsSome(At(objects, i).fighter) => Unwrap(At(objects, i).fighter).hp >= 20
    /\ Cardinality({i \in Indices(objects) : IsSome(At(objects, i).fighter)}) = 3

----------------------------------------------------------------------------
(* Level transitions *)

\* the step handles '<' with the live player on the stairs
DescendStep ==
    /\ pc = "keys"
    /\ Player.alive
    /\ key'.code = "Text" /\ key'.text = "<"
    /\ player_on_stairs(objects)

\* roster entry o is as the generator makes it: the stairs, an item on the floor, or
\* a live monster at full health
Fresh(o) ==
    \/ o = Stairs(o.x, o.y)
    \/ IsSome(o.item) /\ ~IsSome(o.fighter)
    \/ /\ IsSome(o.fighter) /\ IsSome(o.ai) /\ o.alive
       /\ Unwrap(o.fighter).hp = Unwrap(o.fighter).base_max_hp

\* C24: a descent heals the player by half the effective max-hp, clamped to it, raises
\* the depth by exactly 1 and replaces the roster by the player followed by newly
\* generated entities; the player's level, xp, base stats and the inventory are
\* unchanged; no other step changes the depth.
C24_Descent ==
    [][IF DescendStep
       THEN /\ dungeon_level' = dungeon_level + 1
            /\ Unwrap(At(objects', PLAYER).fighter) =
                  [PlayerF EXCEPT !.hp = Min(PlayerF.hp + EffectiveMaxHp \div 2, EffectiveMaxHp)]
            /\ At(objects', PLAYER) =
                  [Player EXCEPT !.x = At(objects', PLAYER).x, !.y = At(objects', PLAYER).y,
                                 !.fighter = At(objects', PLAYER).fighter]
            /\ inventory' = inventory
            /\ \A i \in Indices(objects') \ {PLAYER} :
                  Fresh(At(objects', i)) /\ pos(At(objects', i)) \in map'.open
            /\ \E i \in Indices(objects') : At(objects', i).name = "stairs"
       ELSE dungeon_level' = dungeon_level]_vars

\* the wounded player has left the orc's level by the stairs: half the max-hp healed,
\* nothing of the old level in the roster
C24_RestedOnSecondLevel ==
    /\ dungeon_level = 2
    /\ key.code = "Text" /\ key.text = "<"
    /\ PlayerF.hp \in 51 .. 57
    /\ PlayerF.xp = 315
    /\ Logged("After a moment of rest, you venture deeper into the dungeon...")
    /\ \A i \in Indices(objects) \ {PLAYER} : ~IsSome(At(objects, i).fighter)

\* C25: the player is at roster index 0 in every reachable state, and nowhere else
\* in the roster: pickups (a swap_remove), drops, monster deaths and level
\* transitions keep it there.
C25_PlayerFirst ==
    /\ objects # <<>>
    /\ Player.name = "player"
    /\ IsSome(Player.fighter)
    /\ \A i \in Indices(objects) \ {PLAYER} : At(objects, i).name # "player"
    /\ \A n \in 1 .. Len(inventory) : inventory[n].name # "player"

\* the sword was picked up from the middle of the roster: swap_remove has moved the
\* shield, the last entry, into its place
C25_ShieldMovedIntoSwordsPlace ==
    /\ key.code = "Text" /\ key.text = "g"
    /\ Len(objects) = 3
    /\ At(objects, 1).name = "stairs"
    /\ At(objects, 2).item = Some("Shield")
    /\ Len(inventory) = 2
    /\ inventory[2].item = Some("Sword") /\ inventory[2].name # "dagger"

\* C26: after every level transition the visible set is recomputed against the new
\* map from the player's new position before the next player action or monster step
\* consults it: whenever a key is about to be handled, the visible set is the one
\* computed on the current map from where the player stands.
C26_FovFollowsLevel ==
    pc = "keys" => fov = ComputeFov(map, Player.x, Player.y)

\* the player has come down the stairs onto the coordinates of the stairs just left
\* and the next key is awaited with the visible set of the level above
C26_StaleFovAfterDescent ==
    /\ pc = "keys"
    /\ dungeon_level = 2
    /\ previous_player_position = pos(Player)
    /\ fov # ComputeFov(map, Player.x, Player.y)
    /\ \E t \in fov : t \notin map.open /\ \A n \in Neighbours(t) : n \notin map.open

----------------------------------------------------------------------------
(* The generator *)

\* make_map's accepted rooms so far
Rooms == IF IsSome(call) THEN Unwrap(call).rooms ELSE <<>>

\* C27: in every generated level no two accepted rooms overlap (the intersection
\* test with inclusive bounds is false for every pair) and every accepted room lies
\* fully inside the map.
C27_RoomsDisjointInsideMap ==
    /\ \A i, j \in 1 .. Len(Rooms) :
          i < j => \/ Rooms[i].x1 > Rooms[j].x2
                   \/ Rooms[i].x2 < Rooms[j].x1
                   \/ Rooms[i].y1 > Rooms[j].y2
                   \/ Rooms[i].y2 < Rooms[j].y1
    /\ \A i \in 1 .. Len(Rooms) :
          /\ InGrid(Rooms[i].x1, Rooms[i].y1)
          /\ InGrid(Rooms[i].x2, Rooms[i].y2)

\* a finished level with three rooms: the room in the first corner, the one a tile
\* beyond its wall and the largest room in the last corner of the grid
C27_ThreeRoomsCornerToCorner ==
    /\ pc = "made"
    /\ Len(Rooms) = 3
    /\ \E i, j, k \in 1 .. 3 :
          /\ Rooms[i] = Rect(0, 0, 6, 6)
          /\ Rooms[j] = Rect(7, 0, 10, 10)
          /\ Rooms[k] = Rect(69, 32, 10, 10)

\* a tile as one number, the rows two numbers apart so that the last tile of a row
\* and the first of the next are not neighbours
RowStep == MAP_WIDTH + 2
TileNo(t) == t[1] + RowStep * t[2]

\* the maximal unbroken lines of carved tiles along one axis: step 1 gives the lines
\* along the rows, step RowStep those along the columns
Runs(open, step) ==
    LET starts == {n \in open : n - step \notin open}
        ends == {n \in open : n + step \notin open}
        line(a, e) == {a + k * step : k \in 0 .. ((e - a) \div step)}
    IN  {line(a, CHOOSE e \in ends :
                    e >= a /\ (e - a) % step = 0 /\ line(a, e) \subseteq open) :
            a \in starts}

\* the tiles that steps along the axes over carved tiles reach from those of seen:
\* a step stays on a line of runs, and every tile of a line is reached from every
\* other, so whole lines are taken until none that touches seen adds a tile
RECURSIVE Flood(_, _)
Flood(runs, seen) ==
    LET touched == UNION {r \in runs : r \cap seen # {}}
    IN  IF touched \subseteq seen THEN seen ELSE Flood(runs, seen \cup touched)

\* C28: in every generated level every interior tile of every accepted room is
\* reachable from the centre of the first accepted room by steps over carved tiles,
\* whichever leg of each L-shaped corridor was dug first.
C28_RoomsConnected ==
    (pc = "made" /\ Rooms # <<>>) =>
        LET open == {TileNo(t) : t \in map.open}
            reached == Flood(Runs(open, 1) \cup Runs(open, RowStep),
                             {TileNo(center(Rooms[1]))} \cap open)
        IN  \A i \in 1 .. Len(Rooms) : \A t \in RoomTiles(Rooms[i]) : TileNo(t) \in reached

\* three rooms far from each other, the second joined to the first by a corridor dug
\* horizontal leg first, the third to the second by one dug vertical leg first
C28_BothCorridorOrders ==
    /\ pc = "made"
    /\ Len(Rooms) = 3
    /\ \A i, j \in 1 .. 3 :
          i # j => center(Rooms[i])[1] # center(Rooms[j])[1]
                   /\ center(Rooms[i])[2] # center(Rooms[j])[2]
    /\ <<center(Rooms[2])[1], center(Rooms[1])[2]>> \in map.open
    /\ <<center(Rooms[1])[1], center(Rooms[2])[2]>> \notin map.open
    /\ <<center(Rooms[2])[1], center(Rooms[3])[2]>> \in map.open
    /\ <<center(Rooms[3])[1], center(Rooms[2])[2]>> \notin map.open

\* C29: after every generation the roster is the player at index 0 on the centre of
\* the first accepted room, then the generated monsters and items, then exactly one
\* stairs object, non-blocking and always visible, on the centre of the last
\* accepted room; generation never fails for lack of an accepted room; the player
\* of a new game has base max-hp 100, hp 100, base defense 1 and base power 2.
C29_GeneratedRoster ==
    /\ ~panicked
    /\ (IsSome(call) /\ Unwrap(call).attempts > 0) => Rooms # <<>>
    /\ pc = "made" =>
          LET last == Len(objects) - 1
          IN  /\ last >= 1
              /\ Player.name = "player"
              /\ pos(Player) = center(Rooms[1])
              /\ At(objects, last).name = "stairs"
              /\ At(objects, last).char = "<"
              /\ ~At(objects, last).blocks
              /\ At(objects, last).always_visible
              /\ pos(At(objects, last)) = center(Rooms[Len(Rooms)])
              /\ \A i \in 1 .. (last - 1) :
                    /\ At(objects, i).name \notin {"stairs", "player"}
                    /\ Fresh(At(objects, i))
                    /\ \E n \in 1 .. Len(Rooms) : pos(At(objects, i)) \in RoomTiles(Rooms[n])
              /\ Unwrap(call).caller = "new_game" =>
                    /\ PlayerF.base_max_hp = 100 /\ PlayerF.hp = 100
                    /\ PlayerF.base_defense = 1 /\ PlayerF.base_power = 2

\* a new game's level with two rooms, an orc and a potion in each: six roster
\* entries, the stairs last and away from the player
C29_NewGameTwoRooms ==
    /\ pc = "made"
    /\ Unwrap(call).caller = "new_game"
    /\ Len(Rooms) = 2
    /\ Len(objects) = 6
    /\ At(objects, 1).name = "orc" /\ At(objects, 2).name = "healing potion"
    /\ At(objects, 5).name = "stairs"
    /\ pos(At(objects, 5)) # pos(Player)
    /\ inventory = <<Dagger>>

\* C30: on a table sorted by minimum depth, from_dungeon_level returns the value of
\* the last entry whose minimum depth is at most the depth asked for, and 0 when
\* there is none; it never returns the value of an entry whose minimum depth
\* exceeds the depth asked for.
C30_LastEntryNotDeeper ==
    pc = "returned" =>
        LET table == Unwrap(call).table
            value == Unwrap(Unwrap(call).value)
            sorted == \A n, m \in 1 .. Len(table) : n <= m => table[n].level <= table[m].level
            due == {n \in 1 .. Len(table) : table[n].level <= dungeon_level}
        IN  sorted =>
              /\ due = {} => value = 0
              /\ due # {} =>
                    \E n \in due : /\ \A m \in (n + 1) .. Len(table) : m \notin due
                                   /\ value = table[n].value
              /\ value # 0 => \E n \in due : value = table[n].value

\* the troll weight looked up on level 6: the entries for depths 3 and 5 are due, the
\* one for depth 7 is not, and the value of the entry for depth 5 is returned
C30_TrollWeightOnLevelSix ==
    /\ pc = "returned"
    /\ dungeon_level = 6
    /\ Unwrap(call).table = <<Transition(3, 15), Transition(5, 30), Transition(7, 60)>>
    /\ Unwrap(call).value = Some(30)

\* the monsters and the items the roster holds
MonstersPlaced == {i \in Indices(objects) : HasAi(i)}
ItemsPlaced == {i \in Indices(objects) : At(objects, i).item # None}

\* C31: place_objects never fails on a weight of zero and never places a kind
\* whose weight is zero: no troll above depth 3, only healing potions on depth
\* 1, confusion scrolls from depth 2, swords and lightning scrolls from depth
\* 4, fireball scrolls from depth 6, shields from depth 8; a room never gets
\* more monsters than 2 (depth 1 to 3), 3 (depth 4 and 5) or 5 (from depth 6),
\* nor more items than 1 (depth 1 to 3) or 2 (from depth 4).
C31_ZeroWeightNeverPlaced ==
    /\ ~panicked
    /\ \A i \in MonstersPlaced :
        At(objects, i).name = "troll" => dungeon_level >= 3
    /\ \A i \in ItemsPlaced :
        LET kind == Unwrap(At(objects, i).item)
        IN  /\ dungeon_level = 1 => kind = "Heal"
            /\ kind = "Confuse" => dungeon_level >= 2
            /\ kind \in {"Sword", "Lightning"} => dungeon_level >= 4
            /\ kind = "Fireball" => dungeon_level >= 6
            /\ kind = "Shield" => dungeon_level >= 8
    /\ Cardinality(MonstersPlaced)
        <= (IF dungeon_level < 4 THEN 2 ELSE IF dungeon_level < 6 THEN 3 ELSE 5)
    /\ Cardinality(ItemsPlaced) <= (IF dungeon_level < 4 THEN 1 ELSE 2)

\* a room of depth 1 filled to its maximum: two orcs and a healing potion
C31_FullRoomOnDepthOne ==
    /\ dungeon_level = 1
    /\ pc = "items"
    /\ Unwrap(call).i = Unwrap(call).num
    /\ Cardinality(MonstersPlaced) = 2
    /\ Cardinality(ItemsPlaced) = 1
    /\ \A i \in ItemsPlaced : Unwrap(At(objects, i).item) = "Heal"

\* a step of the monster phase taken by an entity whose AI is Basic
BasicStep ==
    /\ pc = "monsters"
    /\ ai_steps' # ai_steps
    /\ At(objects, id).ai = Some(Basic)

\* C32: a Basic-AI step whose monster stands outside the visible set changes
\* nothing; inside it and at distance 2 or more from the player the monster moves
\* at most one tile on each axis and nothing else changes (no attack is logged);
\* inside it and closer than 2 the monster stays where it is and attacks the
\* player (an attack line about the player is logged, the player's hp drops by
\* the damage) when the player's hp is above 0, and changes nothing when the
\* player is dead.
C32_BasicAiStep ==
    [][BasicStep =>
        LET m == At(objects, id)
            after == At(objects', id)
            damage == power(m, inventory) - defense(Player, inventory)
        IN  /\ Len(objects') = Len(objects)
            /\ IF pos(m) \notin fov
               THEN objects' = objects /\ messages' = messages
               ELSE IF DistanceSq(m, Player.x, Player.y) >= 4
               THEN /\ after.x - m.x \in -1 .. 1
                    /\ after.y - m.y \in -1 .. 1
                    /\ objects' = [objects EXCEPT ![id + 1] = set_pos(m, after.x, after.y)]
                    /\ messages' = messages
               ELSE IF PlayerF.hp > 0
               THEN /\ pos(after) = pos(m)
                    /\ Len(messages') > Len(messages)
                    /\ messages'[Len(messages) + 1]
                        = IF damage > 0
                          THEN <<"{} attacks {} for {} damage!", m.name, "player", damage>>
                          ELSE <<"{} attacks {} but it has no effect!", m.name, "player">>
                    /\ Unwrap(At(objects', PLAYER).fighter).hp = PlayerF.hp - Max(damage, 0)
               ELSE objects' = objects /\ messages' = messages]_vars

\* the orc has killed the player and the troll next to the dead player has had its
\* step: its attack is not in the log
C32_TrollLeftTheDeadAlone ==
    /\ pc = "frame"
    /\ ai_steps = <<0, 1, 0, 1>>
    /\ ~Player.alive
    /\ PlayerF.hp = 0
    /\ At(objects, 3).ai = Some(Basic)
    /\ pos(At(objects, 3)) \in fov
    /\ DistanceSq(At(objects, 3), Player.x, Player.y) < 4
    /\ \A n \in 1 .. Len(messages) : Len(messages[n]) >= 2 => messages[n][2] # "troll"

\* what a move of entity i by (dx, dy) may do: the entity ends on the destination
\* when that tile is open and no blocking entity stands on it, and where it was
\* otherwise; no other entity changes
MoveOutcome(i, dx, dy) ==
    LET o == At(objects, i)
        dest == <<o.x + dx, o.y + dy>>
        free == /\ dest \in map.open
                /\ \A j \in Indices(objects) :
                    ~(At(objects, j).blocks /\ pos(At(objects, j)) = dest)
    IN  /\ Len(objects') = Len(objects)
        /\ pos(At(objects', i)) = IF free THEN dest ELSE pos(o)
        /\ \A j \in Indices(objects) \ {i} : At(objects', j) = At(objects, j)
        /\ map' = map

\* the step handle_keys takes for a movement key of a living player when no fighter
\* stands on the tile the key points to
PlayerMoveStep ==
    /\ pc = "keys"
    /\ pc' # "keys"
    /\ key'.code \in MoveCodes
    /\ Player.alive
    /\ \A j \in Indices(objects) :
        ~(IsSome(At(objects, j).fighter)
          /\ pos(At(objects, j)) = <<Player.x + Direction(key'.code)[1],
                                     Player.y + Direction(key'.code)[2]>>)

\* the step of a Basic monster that is visible and not next to the player
BasicMoveStep ==
    /\ BasicStep
    /\ pos(At(objects, id)) \in fov
    /\ DistanceSq(At(objects, id), Player.x, Player.y) >= 4

\* the step of a monster that is still confused
ConfusedMoveStep ==
    /\ pc = "monsters"
    /\ ai_steps' # ai_steps
    /\ Unwrap(At(objects, id).ai).tag = "Confused"
    /\ Unwrap(At(objects, id).ai).num_turns >= 0

\* C33: a move of the player, of a Basic monster or of a confused monster puts the
\* mover on the destination tile only when that tile is open and no blocking
\* entity stands on it; otherwise the mover stays where it is; in both cases no
\* other entity changes.
C33_MoveOnlyOntoFreeTile ==
    [][/\ PlayerMoveStep =>
            MoveOutcome(PLAYER, Direction(key'.code)[1], Direction(key'.code)[2])
       /\ BasicMoveStep =>
            LET dx == Player.x - At(objects, id).x
                dy == Player.y - At(objects, id).y
            IN  MoveOutcome(id, RoundedStep(dx, Sq(dx) + Sq(dy)),
                            RoundedStep(dy, Sq(dx) + Sq(dy)))
       /\ ConfusedMoveStep =>
            \E dx \in -1 .. 1, dy \in -1 .. 1 : MoveOutcome(id, dx, dy)]_vars

\* the player has stepped down beside the troll, and the orc's step towards the
\* player, onto the troll's tile, was skipped
C33_OrcHeldBackByTroll ==
    /\ pc = "monsters"
    /\ id = 3
    /\ key.code = "Down"
    /\ pos(Player) = <<1, 2>>
    /\ ai_steps = <<0, 1, 0, 0>>
    /\ At(objects, 1).ai = Some(Basic)
    /\ pos(At(objects, 1)) = <<3, 1>>
    /\ pos(At(objects, 3)) = <<2, 1>>

\* C34: mut_two is never asked for the same index twice, so its assertion never
\* fires: the player, roster index 0, has no AI and so never takes an AI step,
\* the entity whose AI step is next is never index 0, no movement key points at
\* the player's own tile, and no step has panicked.
C34_SplitBorrowIndicesDiffer ==
    /\ ~panicked
    /\ Player.ai = None
    /\ pc = "monsters" => id # PLAYER /\ HasAi(id)
    /\ \A code \in MoveCodes :
        <<Player.x + Direction(code)[1], Player.y + Direction(code)[2]>> # pos(Player)

\* a turn in which both callers of mut_two ran: the player struck an orc and an
\* orc struck the player
C34_BlowsTradedInOneTurn ==
    /\ pc = "frame"
    /\ key.code \in MoveCodes
    /\ \E n \in 1 .. Len(messages) :
        messages[n] = <<"{} attacks {} for {} damage!", "player", "orc", 2>>
    /\ \E n \in 1 .. Len(messages) :
        messages[n] = <<"{} attacks {} for {} damage!", "orc", "player", 3>>

\* C35: when a Basic monster's step runs in the monster phase, the visible set
\* answers for the monster's tile as the set computed from the tile the player
\* stands on at that moment, after the player's move of the same turn, would.
C35_VisibleSetOfTheMoment ==
    (pc = "monsters" /\ At(objects, id).ai = Some(Basic))
        => (pos(At(objects, id)) \in fov
                <=> pos(At(objects, id)) \in ComputeFov(map, Player.x, Player.y))

\* the player has stepped into line with the side corridor; the orc standing in it
\* is in sight from the player's new tile, yet its step found it outside the
\* visible set computed before the move and left it where it was
C35_OrcInSightStoodStill ==
    /\ key.code = "Right"
    /\ pos(Player) = <<2, 2>>
    /\ previous_player_position = <<1, 2>>
    /\ ai_steps = <<0, 1, 0, 0>>
    /\ At(objects, 1).ai = Some(Basic)
    /\ pos(At(objects, 1)) = <<2, 7>>
    /\ pos(At(objects, 1)) \in ComputeFov(map, Player.x, Player.y)
    /\ pos(At(objects, 1)) \notin fov
    /\ fov = ComputeFov(map, 1, 2)

\* C36: a dead player is frozen: no step taken while the player is dead changes
\* the player's level or anything in its fighter record (xp, hp, base max-hp,
\* base power, base defense), and in every state a player that is not alive has
\* hp of 0 or less.
C36_DeadPlayerFrozen ==
    /\ [](~Player.alive => PlayerF.hp <= 0)
    /\ [][~Player.alive =>
            /\ At(objects', PLAYER).level = Player.level
            /\ At(objects', PLAYER).fighter = Player.fighter]_vars

\* the player killed an orc for the xp of level 2, was killed by the other orc in
\* the same turn, and has since chosen Constitution in the level-up menu
C36_DeadPlayerTookConstitution ==
    /\ ~Player.alive
    /\ Player.level = 2
    /\ PlayerF.xp = 0
    /\ PlayerF.base_max_hp = 120
    /\ PlayerF.hp > 0
    /\ pc = "keys"

\* C37: no two blocking entities (the player and the living monsters) stand on
\* the same tile, in any state of the generation once the first room is accepted
\* and in the level handed to the game.
C37_BlockersOnDistinctTiles ==
    \A i, j \in Indices(objects) :
        (i # j /\ At(objects, i).blocks /\ At(objects, j).blocks)
            => pos(At(objects, i)) # pos(At(objects, j))

\* a new game's level is finished with the player standing on the orc that was
\* placed on the centre of the first room before the player was moved there
C37_PlayerPutOnOrc ==
    /\ pc = "made"
    /\ Unwrap(call).caller = "new_game"
    /\ ~panicked
    /\ At(objects, 1).name = "orc"
    /\ At(objects, 1).alive
    /\ At(objects, 1).blocks
    /\ pos(At(objects, 1)) = pos(Player)
    /\ pos(Player) = center(Rooms[1])

\* C38: the renderer's map width and height are the generator's, and every
\* coordinate render_all's pass indexes the map with lies inside the grid, so the
\* pass never fails.
C38_RenderPassInsideGrid ==
    /\ GRAPHICS_MAP_WIDTH = MAP_WIDTH
    /\ GRAPHICS_MAP_HEIGHT = MAP_HEIGHT
    /\ ~panicked
    /\ pc = "render_all" => InGrid(Unwrap(call).x, Unwrap(call).y)

\* the first row of the first frame: the pass has marked the player's tile
\* explored, gone on past the last column of the map and failed on map[80][0]
C38_IndexedPastLastColumn ==
    /\ pc = "render_all"
    /\ panicked
    /\ call = Some([x |-> MAP_WIDTH, y |-> 0])
    /\ MAP_WIDTH < GRAPHICS_MAP_WIDTH
    /\ map.explored # {}

\* the tiles on the outer border of the grid
Border ==
    {t \in (0 .. (MAP_WIDTH - 1)) \X (0 .. (MAP_HEIGHT - 1)) :
        t[1] \in {0, MAP_WIDTH - 1} \/ t[2] \in {0, MAP_HEIGHT - 1}}

\* C39: while a map is generated and when it is finished every open tile lies
\* inside the grid and off its outer border, which stays walls; in the finished
\* level every entity stands on an open tile, so the eight tiles around it, the
\* ones a one-step move tests, are tiles of the grid.
C39_BorderStaysWalls ==
    /\ \A t \in map.open : InGrid(t[1], t[2]) /\ t \notin Border
    /\ (pc = "made" /\ ~panicked) =>
          \A i \in Indices(objects) :
              /\ pos(At(objects, i)) \in map.open
              /\ \A dx \in -1 .. 1, dy \in -1 .. 1 :
                    InGrid(At(objects, i).x + dx, At(objects, i).y + dy)

\* a finished level with rooms in the first and in the last corner of the grid:
\* tiles next to all four borders are open, and a potion lies on the last of them
C39_RoomsInBothCorners ==
    /\ pc = "made"
    /\ <<1, 1>> \in map.open
    /\ <<MAP_WIDTH - 2, MAP_HEIGHT - 2>> \in map.open
    /\ \E i \in Indices(objects) :
        At(objects, i).name = "healing potion"
        /\ pos(At(objects, i)) = <<MAP_WIDTH - 2, MAP_HEIGHT - 2>>

\* C40: in every state the player's hp is at most the player's effective max-hp,
\* the base max-hp plus the max-hp bonuses of the equipped items of the inventory.
C40_HpWithinEffectiveMax ==
    PlayerF.hp <= EffectiveMaxHp

\* a wounded player who took Constitution at level 2, rested on the way down and
\* has now drunk a potion: its 40 hp would carry hp past the raised maximum and
\* are cut off at it
C40_PotionCutOffAtRaisedMax ==
    /\ Logged("Your wounds start to heal!")
    /\ dungeon_level = 2
    /\ Player.level = 2
    /\ PlayerF.base_max_hp = 120
    /\ PlayerF.hp = 120
    /\ EffectiveMaxHp = 120

====
